---- MODULE Spec2Model ----
\* Model of the WebMCP directory scanner (scripts/scan_webmcp_directory.ts):
\* one scan run reads the persisted directory, stages candidates from the seed
\* list and the GitHub discovery feed, probes every selected domain, merges the
\* result into the prior record and writes the directory back.
EXTENDS Integers, Sequences, FiniteSets, TLC

\* ------------------------------------------------------------------ bounds

MaxClock == 1          \* timestamps are 0..MaxClock
MaxFail == 5           \* a run that would push a fail_streak above this is not taken
MaxItems == 2          \* a run that would write more items than this is not taken
MaxStoreFail == 1      \* the same as MaxFail, in the store specification
MaxPerRun == 2         \* stands for MAX_DOMAINS_PER_RUN (200 in the source)
MaxPairFail == 1       \* the same as MaxFail, in the two-domain specification
MaxQueryItems == 3     \* items of a small directory the query handler loads
MaxTicks == 10         \* steps of TimeStep the wall clock of the throttle advances

\* ----------------------------------------------------------------- strings
\* A string is a sequence of tokens; every token is a run of characters that
\* the normalizer's regular expressions treat as a unit.  Tokens start with
\* distinct characters, so comparing token by token is comparing by code unit.

NoTime == 0 - 1        \* null / absent timestamp

Lower(tok) ==
  CASE tok = "HTTPS://" -> "https://"
    [] tok = "WWW." -> "www."
    [] tok = "B.COM" -> "b.com"
    [] OTHER -> tok

TokRank(tok) ==
  CASE tok = " " -> 1
    [] tok = "/p" -> 2
    [] tok = "B.COM" -> 3
    [] tok = "HTTPS://" -> 4
    [] tok = "WWW." -> 5
    [] tok = "a.com" -> 6
    [] tok = "b.com" -> 7
    [] tok = "github.com" -> 8
    [] tok = "https:" -> 9
    [] tok = "https://" -> 10
    [] tok = "www." -> 11
    [] tok = "x.com" -> 12
    [] OTHER -> 13

RECURSIVE StrLess(_, _)
\* a < b in code-unit order (Array.prototype.sort default, localeCompare < 0)
StrLess(a, b) ==
  IF b = <<>> THEN FALSE
  ELSE IF a = <<>> THEN TRUE
  ELSE IF Head(a) = Head(b) THEN StrLess(Tail(a), Tail(b))
  ELSE TokRank(Head(a)) < TokRank(Head(b))

RECURSIVE TrimStart(_)
TrimStart(s) == IF s # <<>> /\ Head(s) = " " THEN TrimStart(Tail(s)) ELSE s

RECURSIVE TrimEnd(_)
TrimEnd(s) ==
  IF s # <<>> /\ s[Len(s)] = " " THEN TrimEnd(SubSeq(s, 1, Len(s) - 1)) ELSE s

ToLowerCase(s) == [i \in 1..Len(s) |-> Lower(s[i])]

\* .replace(/^https?:\/\//, "")
StripScheme(s) == IF s # <<>> /\ Head(s) = "https://" THEN Tail(s) ELSE s

\* .replace(/^www\./, "")
StripWww(s) == IF s # <<>> /\ Head(s) = "www." THEN Tail(s) ELSE s

RECURSIVE StripPath(_)
\* .replace(/\/.*$/, ""): everything from the first "/" on is dropped
StripPath(s) ==
  IF s = <<>> THEN <<>>
  ELSE IF Head(s) = "/p" THEN <<>>
  ELSE IF Head(s) = "https://" THEN <<"https:">>
  ELSE <<Head(s)>> \o StripPath(Tail(s))

normalizeDomain(d) ==
  StripPath(StripWww(StripScheme(ToLowerCase(TrimEnd(TrimStart(d))))))

\* ---------------------------------------------------------------- evidence

NoUrl == [host |-> <<>>, path |-> ""]                 \* url undefined
wkUrlOf(domain) == [host |-> domain, path |-> "/.well-known/mcp.json"]
homeUrlOf(domain) == [host |-> domain, path |-> "/"]

\* `${e.kind}|${e.detail}|${e.url ?? ""}`
EvKey(e) == <<e.kind, e.detail, e.url>>

RECURSIVE mergeEvidenceFrom(_, _, _)
mergeEvidenceFrom(out, add, i) ==
  IF i > Len(add) THEN out
  ELSE IF \E j \in 1..Len(out) : EvKey(out[j]) = EvKey(add[i])
       THEN mergeEvidenceFrom(out, add, i + 1)
       ELSE mergeEvidenceFrom(Append(out, add[i]), add, i + 1)

\* variant: the prior ledger is not carried into the result
mergeEvidence_dropExisting(existing, add) == mergeEvidenceFrom(<<>>, add, 1)

mergeEvidence(existing, add) == mergeEvidenceFrom(existing, add, 1)

evidenceKinds(evidence) == {evidence[i].kind : i \in 1..Len(evidence)}

RECURSIVE ScoreFrom(_, _)
ScoreFrom(evidence, i) ==
  IF i > Len(evidence) THEN 0
  ELSE (IF evidence[i].kind = "well_known_mcp_json" THEN 70 ELSE 0)
       + (IF evidence[i].kind = "github_hit" THEN 30 ELSE 0)
       + ScoreFrom(evidence, i + 1)

Min(a, b) == IF a < b THEN a ELSE b

\* variant: a heuristic_html entry of the ledger counts like a fresh hint
computeConfidence_ledgerHint(evidence, htmlSignals) ==
  Min(100, ScoreFrom(evidence, 1)
           + (IF htmlSignals.modelContext \/ "heuristic_html" \in evidenceKinds(evidence)
              THEN 60 ELSE 0)
           + (IF htmlSignals.other THEN 25 ELSE 0))

\* variant: the weaker hints count only when navigator.modelContext was not found
computeConfidence_weakUnlessStrong(evidence, htmlSignals) ==
  Min(100, ScoreFrom(evidence, 1)
           + (IF htmlSignals.modelContext THEN 60
              ELSE IF htmlSignals.other THEN 25 ELSE 0))

\* variant: the sum is not clamped
computeConfidence_noClamp(evidence, htmlSignals) ==
  ScoreFrom(evidence, 1)
  + (IF htmlSignals.modelContext THEN 60 ELSE 0)
  + (IF htmlSignals.other THEN 25 ELSE 0)

computeConfidence(evidence, htmlSignals) ==
  Min(100, ScoreFrom(evidence, 1)
           + (IF htmlSignals.modelContext THEN 60 ELSE 0)
           + (IF htmlSignals.other THEN 25 ELSE 0))

\* variant: a confidence of 80 verifies without strong evidence
statusFromConfidence_noStrong(conf, strong, failStreak) ==
  IF failStreak >= 3 THEN "dead"
  ELSE IF conf >= 80 THEN "verified"
  ELSE IF conf >= 50 THEN "likely"
  ELSE "unverified"

\* variant: dead from a streak of 2
statusFromConfidence_dead2(conf, strong, failStreak) ==
  IF failStreak >= 2 THEN "dead"
  ELSE IF conf >= 80 /\ strong THEN "verified"
  ELSE IF conf >= 50 THEN "likely"
  ELSE "unverified"

\* variant: dead from a streak of 4
statusFromConfidence_dead4(conf, strong, failStreak) ==
  IF failStreak >= 4 THEN "dead"
  ELSE IF conf >= 80 /\ strong THEN "verified"
  ELSE IF conf >= 50 THEN "likely"
  ELSE "unverified"

\* variant: likely from a confidence of 75
statusFromConfidence_likely75(conf, strong, failStreak) ==
  IF failStreak >= 3 THEN "dead"
  ELSE IF conf >= 80 /\ strong THEN "verified"
  ELSE IF conf >= 75 THEN "likely"
  ELSE "unverified"

statusFromConfidence(conf, strong, failStreak) ==
  IF failStreak >= 3 THEN "dead"
  ELSE IF conf >= 80 /\ strong THEN "verified"
  ELSE IF conf >= 50 THEN "likely"
  ELSE "unverified"

\* variant: a strong success verifies whatever the confidence
verificationStatusFrom_anyStrong(prev, strongSuccess, confidence, failStreak) ==
  LET wasVerified == prev # <<>> /\ prev[1].verification_status = "verified"
  IN IF strongSuccess THEN "verified"
     ELSE IF wasVerified /\ failStreak >= 5 /\ ~strongSuccess THEN "revoked"
     ELSE IF prev # <<>> THEN prev[1].verification_status ELSE "unverified"

\* variant: verification needs a confidence of 90
verificationStatusFrom_conf90(prev, strongSuccess, confidence, failStreak) ==
  LET wasVerified == prev # <<>> /\ prev[1].verification_status = "verified"
  IN IF strongSuccess /\ confidence >= 90 THEN "verified"
     ELSE IF wasVerified /\ failStreak >= 5 /\ ~strongSuccess THEN "revoked"
     ELSE IF prev # <<>> THEN prev[1].verification_status ELSE "unverified"

\* variant: a verified record is revoked from a streak of 6
verificationStatusFrom_revokeAt6(prev, strongSuccess, confidence, failStreak) ==
  LET wasVerified == prev # <<>> /\ prev[1].verification_status = "verified"
  IN IF strongSuccess /\ confidence >= 80 THEN "verified"
     ELSE IF wasVerified /\ failStreak >= 6 /\ ~strongSuccess THEN "revoked"
     ELSE IF prev # <<>> THEN prev[1].verification_status ELSE "unverified"

\* variant: a streak of 5 revokes whatever the prior verification_status
verificationStatusFrom_noPrior(prev, strongSuccess, confidence, failStreak) ==
  IF strongSuccess /\ confidence >= 80 THEN "verified"
  ELSE IF failStreak >= 5 /\ ~strongSuccess THEN "revoked"
  ELSE IF prev # <<>> THEN prev[1].verification_status ELSE "unverified"

\* prev is a sequence of zero or one item (zero: no prior record)
verificationStatusFrom(prev, strongSuccess, confidence, failStreak) ==
  LET wasVerified == prev # <<>> /\ prev[1].verification_status = "verified"
  IN IF strongSuccess /\ confidence >= 80 THEN "verified"
     ELSE IF wasVerified /\ failStreak >= 5 /\ ~strongSuccess THEN "revoked"
     ELSE IF prev # <<>> /\ prev[1].verification_status = "revoked"
             /\ strongSuccess /\ confidence >= 80 THEN "verified"
     ELSE IF prev # <<>> THEN prev[1].verification_status ELSE "unverified"

\* variant: the modelContext hint sets no method
verificationMethodFrom_onlyWellKnown(prev, wkOk, modelContext) ==
  IF wkOk THEN "well_known"
  ELSE IF prev # <<>> THEN prev[1].verification_method ELSE "null"

\* variant: a run without strong success forgets the method
verificationMethodFrom_clearOnFail(prev, wkOk, modelContext) ==
  IF wkOk THEN "well_known"
  ELSE IF modelContext THEN "modelContext_detected"
  ELSE "null"

verificationMethodFrom(prev, wkOk, modelContext) ==
  IF wkOk THEN "well_known"
  ELSE IF modelContext THEN "modelContext_detected"
  ELSE IF prev # <<>> THEN prev[1].verification_method ELSE "null"

\* a.type.localeCompare(b.type) || a.url.localeCompare(b.url), as a < b
TypeRank(t) == IF t = "homepage" THEN 1 ELSE 2
UrlLess(u, v) ==
  \/ StrLess(u.host, v.host)
  \/ u.host = v.host /\ u.path = "/" /\ v.path # "/"
ProofLess(p, q) ==
  \/ TypeRank(p.type) < TypeRank(q.type)
  \/ p.type = q.type /\ UrlLess(p.url, q.url)

RECURSIVE InsertProof(_, _)
\* stable insertion: after every element that is not greater
InsertProof(sorted, p) ==
  IF sorted = <<>> THEN <<p>>
  ELSE IF ProofLess(p, Head(sorted)) THEN <<p>> \o sorted
  ELSE <<Head(sorted)>> \o InsertProof(Tail(sorted), p)

RECURSIVE SortProof(_)
SortProof(list) ==
  IF list = <<>> THEN <<>>
  ELSE InsertProof(SortProof(SubSeq(list, 1, Len(list) - 1)), list[Len(list)])

\* variant: the entry is appended even when its (type, url) is already there
upsertProof_append(proof, next) == SortProof(Append(proof, next))

upsertProof(proof, next) ==
  LET hits == {i \in 1..Len(proof) :
                 proof[i].type = next.type /\ proof[i].url = next.url}
      idx == IF hits = {} THEN 0 ELSE CHOOSE i \in hits : \A j \in hits : i <= j
      list == IF idx > 0 THEN [proof EXCEPT ![idx] = next] ELSE Append(proof, next)
  IN SortProof(list)

\* variant: webmcp is read off the ledger like mcp-server
computeTypes_ledgerHint(evidence, htmlSignals) ==
  (IF "well_known_mcp_json" \in evidenceKinds(evidence) THEN <<"mcp-server">> ELSE <<>>)
  \o (IF "heuristic_html" \in evidenceKinds(evidence) THEN <<"webmcp">> ELSE <<>>)

computeTypes(evidence, htmlSignals) ==
  (IF "well_known_mcp_json" \in evidenceKinds(evidence) THEN <<"mcp-server">> ELSE <<>>)
  \o (IF htmlSignals.modelContext \/ htmlSignals.other THEN <<"webmcp">> ELSE <<>>)

getFailStreak(prev) == IF prev # <<>> THEN prev[1].fail_streak ELSE 0

\* variant: every run without strong success adds to the streak
nextFailStreak_countWeak(prevFail, strongSuccess, checkFailed) ==
  IF strongSuccess THEN 0 ELSE prevFail + 1

\* variant: the two last branches exchanged
nextFailStreak_swapped(prevFail, strongSuccess, checkFailed) ==
  IF strongSuccess THEN 0 ELSE IF checkFailed THEN prevFail ELSE prevFail + 1

\* variant: a run that reached the site clears the streak
nextFailStreak_clearOnReach(prevFail, strongSuccess, checkFailed) ==
  IF strongSuccess THEN 0 ELSE IF checkFailed THEN prevFail + 1 ELSE 0

\* const failStreak = strongSuccess ? 0 : checkFailed ? prevFail + 1 : prevFail
nextFailStreak(prevFail, strongSuccess, checkFailed) ==
  IF strongSuccess THEN 0 ELSE IF checkFailed THEN prevFail + 1 ELSE prevFail

\* ------------------------------------------------------------------ probes
\* What the network does to one request: the fetch throws (transport error,
\* timeout, abort), answers with a non-2xx status, or answers 2xx with a body.

WkResponses == {"throw", "non2xx", "badjson", "object"}

\* [res, modelContext, other]: the two flags say what the lower-cased 2xx body
\* contains ("navigator.modelcontext"; any of the five weaker substrings)
HomeResponses ==
  {[res |-> "throw", modelContext |-> FALSE, other |-> FALSE],
   [res |-> "non2xx", modelContext |-> FALSE, other |-> FALSE]}
  \cup {[res |-> "2xx", modelContext |-> m, other |-> o] : m, o \in BOOLEAN}

checkWellKnown(domain, net) ==
  IF net = "throw" THEN [threw |-> TRUE, ok |-> FALSE, evidence |-> <<>>, url |-> wkUrlOf(domain)]
  ELSE IF net = "object"
       THEN [threw |-> FALSE, ok |-> TRUE,
             evidence |-> <<[kind |-> "well_known_mcp_json",
                             detail |-> "found .well-known/mcp.json",
                             url |-> wkUrlOf(domain)]>>,
             url |-> wkUrlOf(domain)]
       ELSE [threw |-> FALSE, ok |-> FALSE, evidence |-> <<>>, url |-> wkUrlOf(domain)]

\* variant: the weaker hints are not looked for
checkHomepage_noOther(domain, net) ==
  IF net.res = "throw"
  THEN [threw |-> TRUE, ok |-> FALSE, modelContext |-> FALSE, other |-> FALSE,
        evidence |-> <<>>, url |-> homeUrlOf(domain)]
  ELSE IF net.res = "non2xx"
  THEN [threw |-> FALSE, ok |-> FALSE, modelContext |-> FALSE, other |-> FALSE,
        evidence |-> <<>>, url |-> homeUrlOf(domain)]
  ELSE [threw |-> FALSE, ok |-> TRUE, modelContext |-> net.modelContext, other |-> FALSE,
        evidence |-> IF net.modelContext
                     THEN <<[kind |-> "heuristic_html",
                             detail |-> "heuristic match in homepage html",
                             url |-> homeUrlOf(domain)]>>
                     ELSE <<>>,
        url |-> homeUrlOf(domain)]

checkHomepage(domain, net) ==
  IF net.res = "throw"
  THEN [threw |-> TRUE, ok |-> FALSE, modelContext |-> FALSE, other |-> FALSE,
        evidence |-> <<>>, url |-> homeUrlOf(domain)]
  ELSE IF net.res = "non2xx"
  THEN [threw |-> FALSE, ok |-> FALSE, modelContext |-> FALSE, other |-> FALSE,
        evidence |-> <<>>, url |-> homeUrlOf(domain)]
  ELSE [threw |-> FALSE, ok |-> TRUE, modelContext |-> net.modelContext, other |-> net.other,
        evidence |-> IF net.modelContext \/ net.other
                     THEN <<[kind |-> "heuristic_html",
                             detail |-> "heuristic match in homepage html",
                             url |-> homeUrlOf(domain)]>>
                     ELSE <<>>,
        url |-> homeUrlOf(domain)]

\* ------------------------------------------------- one domain of the main loop
\* The body of `for (const domain of domains)`: prev is existingMap.get(domain)
\* (zero or one item).  scenC is a history field and no field of the program:
\* the number of consecutive runs, ending with this one, in which neither probe
\* got a 2xx response, counted from a record that was verified with fail_streak 0.

RecomputeItem(domain, prev, evFromDiscovery, wkNet, homeNet, nowIso) ==
  LET wk == checkWellKnown(domain, wkNet)
      h == checkHomepage(domain, homeNet)
      wkOk == IF wk.threw THEN FALSE ELSE wk.ok
      wkEv == IF wk.threw THEN <<>> ELSE wk.evidence
      wkUrl == wkUrlOf(domain)
      homeOk == IF h.threw THEN FALSE ELSE h.ok
      modelContext == IF h.threw THEN FALSE ELSE h.modelContext
      other == IF h.threw THEN FALSE ELSE h.other
      homeEv == IF h.threw THEN <<>> ELSE h.evidence
      homeUrl == homeUrlOf(domain)
      evidence == mergeEvidence(IF prev # <<>> THEN prev[1].evidence ELSE <<>>,
                    mergeEvidence(evFromDiscovery, mergeEvidence(wkEv, homeEv)))
      htmlSignals == [modelContext |-> modelContext, other |-> other]
      confidence == computeConfidence(evidence, htmlSignals)
      strongEvidence == wkOk \/ modelContext
      successSeen == wkOk \/ modelContext \/ other
      prevFail == getFailStreak(prev)
      strongSuccess == wkOk \/ modelContext
      checkFailed == ~wkOk /\ ~homeOk
      failStreak == nextFailStreak(prevFail, strongSuccess, checkFailed)
      status == statusFromConfidence(confidence, strongEvidence, failStreak)
      type == computeTypes(evidence, htmlSignals)
      lastSeen == IF successSeen THEN nowIso
                  ELSE IF prev # <<>> THEN prev[1].last_seen ELSE nowIso
      verification_status == verificationStatusFrom(prev, strongSuccess, confidence, failStreak)
      verification_method == verificationMethodFrom(prev, wkOk, modelContext)
      proof0 == IF prev # <<>> THEN prev[1].proof ELSE <<>>
      proof1 == IF wkOk
                THEN upsertProof(proof0, [type |-> "well_known", url |-> wkUrl, last_success |-> nowIso])
                ELSE proof0
      proof2 == IF modelContext
                THEN upsertProof(proof1, [type |-> "homepage", url |-> homeUrl, last_success |-> nowIso])
                ELSE proof1
      last_verified_success == IF strongSuccess THEN nowIso
                               ELSE IF prev # <<>> THEN prev[1].last_verified_success ELSE NoTime
      transportFailed == wkNet \in {"throw", "non2xx"} /\ homeNet.res \in {"throw", "non2xx"}
      scen == IF ~transportFailed \/ prev = <<>> THEN 0
              ELSE IF prev[1].verification_status = "verified" /\ prev[1].fail_streak = 0 THEN 1
              ELSE IF prev[1].scenC > 0 THEN prev[1].scenC + 1
              ELSE 0
  IN [domain |-> domain,
      name |-> IF prev # <<>> THEN prev[1].name ELSE domain,
      type |-> IF Len(type) > 0 THEN type ELSE IF prev # <<>> THEN prev[1].type ELSE <<>>,
      confidence |-> confidence,
      status |-> status,
      verification_status |-> verification_status,
      verification_method |-> verification_method,
      proof |-> proof2,
      last_verified_success |-> last_verified_success,
      fail_streak |-> failStreak,
      evidence |-> evidence,
      last_checked |-> nowIso,
      last_seen |-> lastSeen,
      sponsored |-> IF prev # <<>> THEN prev[1].sponsored ELSE FALSE,
      verification_available |-> IF prev # <<>> THEN prev[1].verification_available ELSE TRUE,
      scenC |-> scen]

\* --------------------------------------------------------------- candidates
\* The seed file: an array of strings (data/webmcp_seeds.json).

SeedA == <<"a.com">>
SeedWwA == <<"www.", "www.", "a.com">>
SeedWwwA == <<"www.", "www.", "www.", "a.com">>
SeedB == <<" ", "HTTPS://", "B.COM", "/p">>

\* the seed files of the one-record and of the store specification
SeedFiles == {{SeedA}}
StoreSeedFiles ==
  {{}, {SeedA}, {SeedWwwA}, {SeedA, SeedWwA}, {SeedA, SeedB}, {SeedA, SeedB, SeedWwwA}}

\* The discovery feed: the repositories the code search returned, in order,
\* each with the hosts its README names (readme FALSE: no README came back).
RepoR1 ==
  [fullName |-> "o/r1", htmlUrl |-> [host |-> <<"github.com">>, path |-> "/o/r1"],
   readme |-> TRUE, hosts |-> {<<"a.com">>, <<"github.com">>}]

DiscoveryFeeds == {<<>>, <<RepoR1>>}

\* a second repository whose README names a.com
RepoR2 ==
  [fullName |-> "o/r2", htmlUrl |-> [host |-> <<"github.com">>, path |-> "/o/r2"],
   readme |-> TRUE, hosts |-> {<<"a.com">>}]

\* the code search returning no repository, one, or two that name a.com
RepoFeeds == {<<>>, <<RepoR1>>, <<RepoR1, RepoR2>>}

RepoDetail(fullName) == IF fullName = "o/r1" THEN "repo: o/r1" ELSE "repo: o/r2"

extractDomains(hosts) ==
  {normalizeDomain(h) : h \in hosts} \ {<<>>, <<"github.com">>, <<"raw.githubusercontent.com">>}

RECURSIVE stageRepos(_, _, _)
\* for (const [fullName, info] of repos) { ... candidates.set(d, mergeEvidence(existing, [ev])) }
stageRepos(candidates, feed, i) ==
  IF i > Len(feed) THEN candidates
  ELSE LET r == feed[i]
           ev == [kind |-> "github_hit", detail |-> RepoDetail(r.fullName), url |-> r.htmlUrl]
           ds == IF r.readme THEN extractDomains(r.hosts) ELSE {}
           next == [d \in DOMAIN candidates \cup ds |->
                      IF d \in ds
                      THEN mergeEvidence(IF d \in DOMAIN candidates THEN candidates[d] ELSE <<>>, <<ev>>)
                      ELSE candidates[d]]
       IN stageRepos(next, feed, i + 1)

\* a function from candidate key to its discovery evidence
stageCandidates(seeds, feed) ==
  LET keys == {normalizeDomain(s) : s \in seeds} \ {<<>>}
  IN stageRepos([d \in keys |-> <<>>], feed, 1)

RECURSIVE SortStrings(_)
\* the strings of a set in ascending order
SortStrings(S) ==
  IF S = {} THEN <<>>
  ELSE LET m == CHOOSE x \in S : \A y \in S : ~StrLess(y, x)
       IN <<m>> \o SortStrings(S \ {m})

RECURSIVE InsertSorted(_, _)
InsertSorted(sorted, d) ==
  IF sorted = <<>> THEN <<d>>
  ELSE IF StrLess(d, Head(sorted)) THEN <<d>> \o sorted
  ELSE <<Head(sorted)>> \o InsertSorted(Tail(sorted), d)

RECURSIVE SortMapped(_, _)
SortMapped(keys, i) ==
  IF i > Len(keys) THEN <<>>
  ELSE LET d == normalizeDomain(keys[i])
           rest == SortMapped(keys, i + 1)
       IN IF d = <<>> THEN rest ELSE InsertSorted(rest, d)

\* Array.from(candidates.keys()).map(normalizeDomain).filter(Boolean).sort().slice(0, MAX)
selectDomains(candidates) ==
  LET all == SortMapped(SortStrings(DOMAIN candidates), 1)
  IN SubSeq(all, 1, Min(Len(all), MaxPerRun))

\* existingMap.get(domain): the map is built from [normalizeDomain(i.domain), i]
\* pairs, a later pair replacing an earlier one with the same key
\* variant: the lookup never finds a prior record
existingMapGet_none(existingItems, domain) == <<>>

existingMapGet(existingItems, domain) ==
  LET hits == {i \in 1..Len(existingItems) : normalizeDomain(existingItems[i].domain) = domain}
  IN IF hits = {} THEN <<>>
     ELSE <<existingItems[CHOOSE i \in hits : \A j \in hits : j <= i]>>

candidatesGet(candidates, domain) ==
  IF domain \in DOMAIN candidates THEN candidates[domain] ELSE <<>>

RECURSIVE InsertItem(_, _)
\* stable: an item goes after every item whose domain is not greater
InsertItem(sorted, it) ==
  IF sorted = <<>> THEN <<it>>
  ELSE IF StrLess(it.domain, Head(sorted).domain) THEN <<it>> \o sorted
  ELSE <<Head(sorted)>> \o InsertItem(Tail(sorted), it)

RECURSIVE SortItems(_)
\* updatedItems.sort((a, b) => a.domain.localeCompare(b.domain))
SortItems(list) ==
  IF list = <<>> THEN <<>>
  ELSE InsertItem(SortItems(SubSeq(list, 1, Len(list) - 1)), list[Len(list)])

\* ------------------------------------------------------------------- a run
\* probes[i] is what the network answers to the two requests of the i-th
\* selected domain.  Besides the items written, a run leaves a record of each
\* domain it processed: what it looked up (a summary of prev), what came back
\* and what it built.

ProbePairs ==
  [wk : WkResponses \ {"throw"}, home : {h \in HomeResponses : h.res # "throw"}]
  \cup {[wk |-> "throw", home |-> h] :
          h \in {x \in HomeResponses : x.res = "throw" \/ (x.res = "2xx" /\ ~x.modelContext /\ ~x.other)}}
  \cup {[wk |-> "object", home |-> h] : h \in {x \in HomeResponses : x.res = "throw"}}

StoreProbePairs ==
  {[wk |-> "object", home |-> [res |-> "2xx", modelContext |-> TRUE, other |-> FALSE]],
   [wk |-> "throw", home |-> [res |-> "non2xx", modelContext |-> FALSE, other |-> FALSE]]}

ProofKey(p) == <<p.type, p.url>>

PrevSummary(prev) ==
  IF prev = <<>>
  THEN [had |-> FALSE, verification_status |-> "unverified", fail_streak |-> 0,
        evKeys |-> {}, proofKeys |-> {}]
  ELSE [had |-> TRUE, verification_status |-> prev[1].verification_status,
        fail_streak |-> prev[1].fail_streak,
        evKeys |-> {EvKey(prev[1].evidence[k]) : k \in 1..Len(prev[1].evidence)},
        proofKeys |-> {ProofKey(prev[1].proof[k]) : k \in 1..Len(prev[1].proof)}]

RunEntry(existingItems, candidates, domain, probe, nowIso) ==
  LET prev == existingMapGet(existingItems, domain)
      evd == candidatesGet(candidates, domain)
  IN [domain |-> domain, prev |-> PrevSummary(prev), evFromDiscovery |-> evd,
      probe |-> probe,
      new |-> RecomputeItem(domain, prev, evd, probe.wk, probe.home, nowIso)]

\* variant: a rejected fetch ends the loop
RunEntries_stopAtThrow(existingItems, candidates, domains, probes, nowIso) ==
  LET bad == {i \in 1..Len(domains) : probes[i].wk = "throw" \/ probes[i].home.res = "throw"}
      n == IF bad = {} THEN Len(domains) ELSE (CHOOSE i \in bad : \A j \in bad : i <= j) - 1
  IN [i \in 1..n |-> RunEntry(existingItems, candidates, domains[i], probes[i], nowIso)]

RunEntries(existingItems, candidates, domains, probes, nowIso) ==
  [i \in 1..Len(domains) |-> RunEntry(existingItems, candidates, domains[i], probes[i], nowIso)]

CarriedOver(existingItems, domains) ==
  LET checked == {domains[i] : i \in 1..Len(domains)}
      keep(it) == normalizeDomain(it.domain) \notin checked
  IN SelectSeq(existingItems, keep)

MainItems(existingItems, entries, domains) ==
  SortItems([i \in 1..Len(entries) |-> entries[i].new] \o CarriedOver(existingItems, domains))

VARIABLES
  file,      \* data/webmcp_directory.json: [state, updated_at, items]
  clock,     \* what isoNow() returns
  last,      \* history: the last run, [ran, exit, seeds, feed, domains, entries, now]
  procs,     \* the scanner processes: [pc, out, entries, now, replaced, overlap, mixed]
  api,       \* the last call of the request side: [op, input, output]
  throttle   \* throttledFetch of one scanner process, see NoFetch

vars == <<file, clock, last, procs, api, throttle>>

\* exit: the exit code of the process ("none" before any run)
NoRun ==
  [ran |-> FALSE, exit |-> "none", seeds |-> {}, feed |-> <<>>, domains |-> <<>>,
   entries |-> <<>>, now |-> 0]

\* the scanner processes that may be alive at the same time
Procs == {1, 2}

\* pc: "idle", "ready" (everything up to line 463 done, the items to write are
\* in memory), "writing" (inside fs.writeFile), "done".  History fields:
\* entries (what the run built, as in last), replaced (the readable file this
\* process's write replaced), overlap (another process was writing between
\* this one's read and the end of its write), mixed (another write ended
\* while this one was open).
Idle ==
  [pc |-> "idle", out |-> <<>>, entries |-> <<>>, now |-> 0, replaced |-> <<>>,
   overlap |-> FALSE, mixed |-> FALSE]

NoCall == [op |-> "none", input |-> <<>>, output |-> <<>>]

MIN_REQUEST_INTERVAL_MS == 1000
REQUEST_TIMEOUT_MS == 4500

\* the wall clock moves in steps of this many milliseconds
TimeStep == 500

\* the callers of throttledFetch that may be inside it at the same time
Callers == {1, 2}

\* now: Date.now(); lastFetchAt: the module variable; pc[c]: where caller c is
\* ("idle": outside, "sleeping": in the setTimeout of line 64, "fetching": in
\* the fetch of line 70, "reading": back from throttledFetch with a response
\* and reading its body, res.json() or res.text()); wakeAt[c]: when the timer
\* of line 64 is due; begunAt[c]: when the fetch of c was started; timer[c]:
\* the abort timer of line 68 is pending.  History fields: startedAt and
\* completedAt are the times the last request was started and came back
\* (completedAt NoTime while it is in flight or before any), prevStartedAt and
\* prevCompletedAt the same for the request before it.  The process starts at
\* a time later than MIN_REQUEST_INTERVAL_MS after the epoch.
NoFetch ==
  [now |-> MIN_REQUEST_INTERVAL_MS, lastFetchAt |-> 0,
   pc |-> [c \in Callers |-> "idle"], wakeAt |-> [c \in Callers |-> 0],
   begunAt |-> [c \in Callers |-> NoTime], timer |-> [c \in Callers |-> FALSE],
   startedAt |-> NoTime, completedAt |-> NoTime,
   prevStartedAt |-> NoTime, prevCompletedAt |-> NoTime]

\* The states of the file: "missing" (no file), "ok" (what a run wrote),
\* "badjson" (bytes that JSON.parse rejects, a truncated write among them) and
\* "malformed" (valid JSON without an items array).
Init ==
  /\ file = [state |-> "missing", updated_at |-> NoTime, items |-> <<>>]
  /\ clock = 0
  /\ last = NoRun
  /\ procs = [p \in Procs |-> Idle]
  /\ api = NoCall
  /\ throttle = NoFetch

\* readJsonFile(DATASET_PATH, {updated_at: isoNow(), items: []}).items; the
\* caller guards file.state # "malformed", where existing.items is undefined
readExisting == IF file.state = "ok" THEN file.items ELSE <<>>

Tick ==
  /\ clock < MaxClock
  /\ clock' = clock + 1
  /\ UNCHANGED <<file, last, procs, api, throttle>>

\* main(), with the inputs of the run drawn from the given sets
RunWith(seedFiles, feeds, pairs, maxFail) ==
  \E seeds \in seedFiles, feed \in feeds :
    \E existingItems \in {readExisting} :
    \E candidates \in {stageCandidates(seeds, feed)} :
    \E domains \in {selectDomains(candidates)} :
    \E probes \in [1..Len(domains) -> pairs] :
    \E entries \in {RunEntries(existingItems, candidates, domains, probes, clock)} :
    \E out \in {MainItems(existingItems, entries, domains)} :
      /\ file.state # "malformed"
      /\ Len(out) <= MaxItems
      /\ \A i \in 1..Len(out) : out[i].fail_streak <= maxFail
      /\ file' = [state |-> "ok", updated_at |-> clock, items |-> out]
      /\ last' = [ran |-> TRUE, exit |-> "0", seeds |-> seeds, feed |-> feed,
                  domains |-> domains, entries |-> entries, now |-> clock]
      /\ UNCHANGED <<clock, procs, api, throttle>>

\* The life of one record: every run selects a.com, the network answers in
\* every way, and all runs read the same clock (no decision reads a timestamp).
Run == RunWith(SeedFiles, DiscoveryFeeds, ProbePairs, MaxFail)

Next == Run

Spec == Init /\ [][Next]_vars

\* The store: seed files that change from run to run, several domains, the
\* clock advancing, and two answers of the network per domain.
StoreRun == RunWith(StoreSeedFiles, DiscoveryFeeds, StoreProbePairs, MaxStoreFail)

StoreNext == Tick \/ StoreRun

SpecStore == Init /\ [][StoreNext]_vars

\* Two domains in every run (a.com and b.com), and for each of them the
\* network failing in every way the probes distinguish: the fetch rejects, the
\* status is not 2xx, the manifest body is no JSON, reading the body rejects.
PairSeedFiles == {{SeedA, SeedB}}

HomeHit == [res |-> "2xx", modelContext |-> TRUE, other |-> FALSE]
HomeThrow == [res |-> "throw", modelContext |-> FALSE, other |-> FALSE]
HomeNon2xx == [res |-> "non2xx", modelContext |-> FALSE, other |-> FALSE]

ProbeSuccess == [wk |-> "object", home |-> HomeHit]

PairProbePairs ==
  {ProbeSuccess,
   [wk |-> "badjson", home |-> HomeHit],
   [wk |-> "throw", home |-> HomeNon2xx],
   [wk |-> "non2xx", home |-> HomeThrow]}

PairRun == RunWith(PairSeedFiles, {<<>>}, PairProbePairs, MaxPairFail)

PairNext == PairRun

SpecPair == Init /\ [][PairNext]_vars

\* The record of a.com over time: the clock advances between runs, and the
\* network answers with a strong success, a weak hint only, a page without
\* hint, or not at all.
TimeProbePairs ==
  {[wk |-> "object", home |-> HomeNon2xx],
   [wk |-> "throw", home |-> HomeHit],
   [wk |-> "non2xx", home |-> [res |-> "2xx", modelContext |-> FALSE, other |-> TRUE]],
   [wk |-> "badjson", home |-> [res |-> "2xx", modelContext |-> FALSE, other |-> FALSE]],
   [wk |-> "throw", home |-> HomeThrow]}

TimeRun == RunWith(SeedFiles, {<<>>}, TimeProbePairs, MaxPairFail)

TimeNext == Tick \/ TimeRun

SpecTime == Init /\ [][TimeNext]_vars

\* More candidates than the cap: one of the seed files, each with three
\* candidates, is there from the first run on and never changes; the
\* discovery feed is empty.
SeedX == <<"x.com">>
SeedWwX == <<"www.", "www.", "x.com">>
SeedWwwX == <<"www.", "www.", "www.", "x.com">>
CapSeedFiles ==
  {{SeedA, SeedB, SeedX}, {SeedA, SeedB, SeedWwwA}, {SeedA, SeedWwX, SeedWwwX}}

CapRun ==
  RunWith(IF last.ran THEN {last.seeds} ELSE CapSeedFiles, {<<>>}, TimeProbePairs, MaxPairFail)

CapNext == CapRun

SpecCap == Init /\ [][CapNext]_vars

\* The record of a.com while the discovery feed changes: the code search finds
\* no repository, one or two, and the probes answer as in SpecTime.
FeedRun == RunWith(SeedFiles, RepoFeeds, TimeProbePairs, MaxPairFail)

FeedNext == FeedRun

SpecFeed == Init /\ [][FeedNext]_vars

\* The file between runs: something outside the scanner removes it or replaces
\* its bytes, by text that is no JSON or by JSON that is no directory file.
DamagedStates == {"missing", "badjson", "malformed"}

Damage ==
  /\ \E s \in DamagedStates :
       file' = [state |-> s, updated_at |-> NoTime, items |-> <<>>]
  /\ UNCHANGED <<clock, last, procs, api, throttle>>

\* main() on a file that parses to a value without an items array:
\* existing.items.map throws a TypeError before anything is staged, main()
\* rejects and the process exits with code 1; nothing is written
MainThrows ==
  /\ file.state = "malformed"
  /\ last' = [NoRun EXCEPT !.ran = TRUE, !.exit = "1", !.now = clock]
  /\ UNCHANGED <<file, clock, procs, api, throttle>>

FileRun == RunWith(SeedFiles, DiscoveryFeeds, PairProbePairs, MaxPairFail)

FileNext == FileRun \/ MainThrows \/ Damage

SpecFile == Init /\ [][FileNext]_vars

\* main() as a process: the file is touched when it is read (line 349) and when
\* it is written (line 465); fs.writeFile opens the path with flag "w", which
\* truncates it, writes the text and closes.  Several processes may be alive,
\* and a process may be killed at any point.
ProcProbePairs == {ProbeSuccess, [wk |-> "throw", home |-> HomeThrow]}

Truncated == [state |-> "badjson", updated_at |-> NoTime, items |-> <<>>]

\* lines 349-463: read, stage, select, probe and merge
ProcStart(p) ==
  /\ procs[p].pc \in {"idle", "done"}
  /\ file.state # "malformed"
  /\ \E seeds \in SeedFiles :
       \E existingItems \in {readExisting} :
       \E candidates \in {stageCandidates(seeds, <<>>)} :
       \E domains \in {selectDomains(candidates)} :
       \E probes \in [1..Len(domains) -> ProcProbePairs] :
       \E entries \in {RunEntries(existingItems, candidates, domains, probes, clock)} :
       \E out \in {MainItems(existingItems, entries, domains)} :
         /\ Len(out) <= MaxItems
         /\ \A i \in 1..Len(out) : out[i].fail_streak <= MaxPairFail
         /\ procs' = [procs EXCEPT ![p] =
                        [pc |-> "ready", out |-> out, entries |-> entries, now |-> clock,
                         replaced |-> <<>>,
                         overlap |-> \E q \in Procs \ {p} : procs[q].pc = "writing",
                         mixed |-> FALSE]]
  /\ UNCHANGED <<file, clock, last, api, throttle>>

\* writeJsonFile, first half: the file is opened and truncated
ProcTruncate(p) ==
  /\ procs[p].pc = "ready"
  /\ file' = Truncated
  /\ procs' = [q \in Procs |->
                 IF q = p THEN [procs[p] EXCEPT !.pc = "writing", !.replaced = readExisting]
                 ELSE IF procs[q].pc \in {"ready", "writing"}
                      THEN [procs[q] EXCEPT !.overlap = TRUE]
                      ELSE procs[q]]
  /\ UNCHANGED <<clock, last, api, throttle>>

\* writeJsonFile, second half: the text is written from offset 0 and the file
\* closed.  When another process wrote its text after this one truncated, the
\* file holds this text followed by what is left of the longer one.
ProcFinish(p) ==
  /\ procs[p].pc = "writing"
  /\ \E f \in {[state |-> "ok", updated_at |-> procs[p].now, items |-> procs[p].out]}
               \cup (IF procs[p].mixed THEN {Truncated} ELSE {}) :
       file' = f
  /\ procs' = [q \in Procs |->
                 IF q = p
                 THEN [procs[p] EXCEPT !.pc = "done",
                                       !.replaced = IF file.state = "ok" THEN file.items ELSE @]
                 ELSE IF procs[q].pc = "writing"
                      THEN [procs[q] EXCEPT !.mixed = TRUE]
                      ELSE procs[q]]
  /\ UNCHANGED <<clock, last, api, throttle>>

\* the process is killed (or the machine stops) before main() returns
ProcCrash(p) ==
  /\ procs[p].pc \in {"ready", "writing"}
  /\ procs' = [procs EXCEPT ![p] = Idle]
  /\ UNCHANGED <<file, clock, last, api, throttle>>

ProcNext ==
  \E p \in Procs : ProcStart(p) \/ ProcTruncate(p) \/ ProcFinish(p) \/ ProcCrash(p)

SpecProc == Init /\ [][ProcNext]_vars

\* ------------------------------------------------- the directory query handler
\* lib/agentic/runtime/webmcpDirectory.ts.  A JSON number is held in halves
\* (v = 5 is 2.5); a JSON value is [t, v] with t its typeof.

Max(a, b) == IF a > b THEN a ELSE b

STATUS_ORDER(s) ==
  CASE s = "verified" -> 0 [] s = "likely" -> 1 [] s = "unverified" -> 2 [] OTHER -> 3

\* the host names of the directories below, in localeCompare order
QueryHosts ==
  <<"a.com", "b.com", "c.com", "d.com", "e.com", "f.com",
   "h01.com", "h02.com", "h03.com", "h04.com", "h05.com", "h06.com", "h07.com",
   "h08.com", "h09.com", "h10.com", "h11.com", "h12.com", "h13.com", "h14.com",
   "h15.com", "h16.com", "h17.com", "h18.com", "h19.com", "h20.com", "h21.com",
   "h22.com", "h23.com", "h24.com", "h25.com", "h26.com", "h27.com", "h28.com",
   "h29.com", "h30.com", "h31.com", "h32.com", "h33.com", "h34.com", "h35.com",
   "h36.com", "h37.com", "h38.com", "h39.com", "h40.com", "h41.com", "h42.com",
   "h43.com", "h44.com", "h45.com", "h46.com", "h47.com", "h48.com", "h49.com",
   "h50.com", "h51.com", "h52.com">>

HostRank(d) == CHOOSE i \in 1..Len(QueryHosts) : QueryHosts[i] = d[1]

\* a.domain.localeCompare(b.domain) < 0
QDomainLess(a, b) == HostRank(a) < HostRank(b)

KindRank(k) ==
  CASE k = "github_hit" -> 1 [] k = "heuristic_html" -> 2 [] OTHER -> 3

\* A stable sort, given for every pair of places whether the first element is
\* less than the second: an element goes after the elements that are less and
\* after the earlier elements that are not greater.
StableSort(seq, less) ==
  LET n == Len(seq)
      pos == [i \in 1..n |->
                Cardinality({j \in 1..n : less[j][i] \/ (j < i /\ ~less[i][j])}) + 1]
  IN [k \in 1..n |-> seq[CHOOSE i \in 1..n : pos[i] = k]]

\* Array.from(new Set(kinds)).sort()
summarizeEvidenceKinds(item) ==
  LET kinds == {item.evidence[i].kind : i \in 1..Len(item.evidence)}
      n == Cardinality(kinds)
  IN [k \in 1..n |->
        CHOOSE x \in kinds : Cardinality({y \in kinds : KindRank(y) < KindRank(x)}) = k - 1]

RECURSIVE JoinSpace(_)
\* kinds.join(" ")
JoinSpace(list) ==
  IF list = <<>> THEN <<>>
  ELSE IF Len(list) = 1 THEN <<list[1]>>
  ELSE <<list[1], " ">> \o JoinSpace(Tail(list))

\* text.includes(q)
Includes(text, q) ==
  \E k \in 0..(Len(text) - Len(q)) : SubSeq(text, k + 1, k + Len(q)) = q

\* s.toLowerCase().trim()
normalize(s) == TrimEnd(TrimStart(ToLowerCase(s)))

score(item, q) ==
  IF q = <<>> THEN 0
  ELSE IF Includes(normalize(item.domain), normalize(q)) THEN 50
  ELSE IF Includes(normalize(JoinSpace(summarizeEvidenceKinds(item))), normalize(q)) THEN 10
  ELSE 0

Statuses == {"verified", "likely", "unverified", "dead"}
ItemTypes == {"webmcp", "mcp-server"}

\* a parsed field is <<>> (undefined) or <<value>>
parseInput(input) ==
  LET obj == input.isObject
      typeList == IF obj /\ input.type.t = "array"
                  THEN SelectSeq(input.type.v, LAMBDA t : t \in ItemTypes) ELSE <<>>
  IN [query |-> IF obj /\ input.query.t = "string" THEN <<input.query.v>> ELSE <<>>,
      limit |-> IF obj /\ input.limit.t = "number"
                THEN Max(1, Min(50, input.limit.v \div 2)) ELSE 10,
      status |-> IF obj /\ input.status.t = "string" /\ input.status.v \in Statuses
                 THEN <<input.status.v>> ELSE <<>>,
      type |-> IF Len(typeList) > 0 THEN <<typeList>> ELSE <<>>,
      min_confidence |-> IF obj /\ input.min_confidence.t = "number"
                         THEN <<input.min_confidence.v>> ELSE <<>>]

\* variant: confidence ascending
QueryLess_confAsc(a, b) ==
  \/ STATUS_ORDER(a.status) < STATUS_ORDER(b.status)
  \/ /\ a.status = b.status
     /\ \/ a.confidence < b.confidence
        \/ /\ a.confidence = b.confidence
           /\ \/ b.last_seen < a.last_seen
              \/ (a.last_seen = b.last_seen /\ QDomainLess(a.domain, b.domain))

\* the comparator of the final sort, as "a goes before b"
QueryLess(a, b) ==
  \/ STATUS_ORDER(a.status) < STATUS_ORDER(b.status)
  \/ /\ a.status = b.status
     /\ \/ b.confidence < a.confidence
        \/ /\ a.confidence = b.confidence
           /\ \/ b.last_seen < a.last_seen
              \/ (a.last_seen = b.last_seen /\ QDomainLess(a.domain, b.domain))

\* b.s - a.s || a.i.domain.localeCompare(b.i.domain)
ScoreLess(q, a, b) ==
  \/ score(b, q) < score(a, q)
  \/ (score(a, q) = score(b, q) /\ QDomainLess(a.domain, b.domain))

\* the handler, given the input of the request and the items it loaded
queryHandler(input, items) ==
  LET in == parseInput(input)
      q == IF in.query = <<>> THEN <<>> ELSE TrimEnd(TrimStart(in.query[1]))
      minConfidence == IF in.min_confidence = <<>> THEN 0 ELSE in.min_confidence[1]
      byStatus == IF in.status # <<>>
                  THEN SelectSeq(items, LAMBDA i : i.status = in.status[1]) ELSE items
      byType == IF in.type # <<>>
                THEN SelectSeq(byStatus,
                       LAMBDA i : \E k \in 1..Len(i.type) :
                                    \E m \in 1..Len(in.type[1]) : i.type[k] = in.type[1][m])
                ELSE byStatus
      \* min_confidence is in halves, confidence in units
      byConf == SelectSeq(byType, LAMBDA i : 2 * i.confidence >= minConfidence)
      scored == SelectSeq(byConf, LAMBDA i : score(i, q) > 0)
      byQuery == IF q # <<>>
                 THEN StableSort(scored,
                        [a \in 1..Len(scored) |->
                           [b \in 1..Len(scored) |-> ScoreLess(q, scored[a], scored[b])]])
                 ELSE byConf
      sorted == StableSort(byQuery,
                  [a \in 1..Len(byQuery) |->
                     [b \in 1..Len(byQuery) |-> QueryLess(byQuery[a], byQuery[b])]])
      shown == SubSeq(sorted, 1, Min(Len(sorted), in.limit))
  IN [threw |-> FALSE,
      results |-> [k \in 1..Len(shown) |->
                     [domain |-> shown[k].domain, type |-> shown[k].type,
                      confidence |-> shown[k].confidence, status |-> shown[k].status,
                      evidence_summary |-> summarizeEvidenceKinds(shown[k]),
                      last_seen |-> shown[k].last_seen]],
      total |-> Len(sorted)]

\* the items of the directories the handler is run on
QItem(host, type, confidence, status, kinds, seen) ==
  [domain |-> <<host>>, type |-> type, confidence |-> confidence, status |-> status,
   evidence |-> [k \in 1..Len(kinds) |-> [kind |-> kinds[k]]], last_seen |-> seen]

QueryPool ==
  <<QItem("a.com", <<"mcp-server", "webmcp">>, 100, "verified",
          <<"well_known_mcp_json", "heuristic_html">>, 1),
    QItem("b.com", <<"webmcp">>, 100, "verified", <<"heuristic_html", "github_hit">>, 2),
    QItem("c.com", <<"mcp-server">>, 70, "likely", <<"well_known_mcp_json">>, 1),
    QItem("d.com", <<>>, 0, "dead", <<>>, 0),
    QItem("e.com", <<"webmcp">>, 80, "verified", <<"heuristic_html">>, 2),
    QItem("f.com", <<>>, 30, "unverified", <<"github_hit">>, 1)>>

\* a directory of 52 items, more than the largest limit
BigDirectory ==
  [k \in 1..52 |->
     QItem(QueryHosts[6 + k], <<"webmcp">>, IF k % 2 = 0 THEN 100 ELSE 70,
           IF k % 2 = 0 THEN "verified" ELSE "likely", <<"heuristic_html">>, k % 3)]

\* the scanner writes the items sorted by domain
QueryDirectories ==
  {SelectSeq(QueryPool, LAMBDA it : it \in S) :
     S \in {T \in SUBSET {QueryPool[i] : i \in 1..Len(QueryPool)} :
              Cardinality(T) <= MaxQueryItems}}
  \cup {BigDirectory}

Undefined == [t |-> "undefined", v |-> 0]

QueryInputs ==
  [isObject : {TRUE},
   query : {[t |-> "undefined", v |-> <<>>], [t |-> "string", v |-> <<" ">>],
            [t |-> "string", v |-> <<" ", "B.COM">>],
            [t |-> "string", v |-> <<"github_hit", " ", "heuristic_html">>]},
   limit : {Undefined} \cup {[t |-> "number", v |-> h] : h \in {0 - 3, 5, 102}},
   status : {[t |-> "undefined", v |-> ""], [t |-> "string", v |-> "verified"],
             [t |-> "string", v |-> "archived"]},
   type : {[t |-> "undefined", v |-> <<>>], [t |-> "array", v |-> <<>>],
           [t |-> "array", v |-> <<"plugin", "mcp-server">>]},
   min_confidence : {Undefined, [t |-> "number", v |-> 160], [t |-> "string", v |-> 160]}]
  \cup {[isObject |-> FALSE, query |-> [t |-> "undefined", v |-> <<>>], limit |-> Undefined,
         status |-> [t |-> "undefined", v |-> ""], type |-> [t |-> "undefined", v |-> <<>>],
         min_confidence |-> Undefined]}

\* the directory file is put in place (a deployment ships data/webmcp_directory.json)
Publish ==
  /\ file.state = "missing"
  /\ \E items \in QueryDirectories : file' = [state |-> "ok", updated_at |-> 0, items |-> items]
  /\ UNCHANGED <<clock, last, procs, api, throttle>>

\* one request to directory.webmcp: loadDirectory throws when the file cannot
\* be read or parsed.  The handler keeps nothing from one request to the next
\* but the directory it loaded, so one request per behaviour shows them all.
Query ==
  /\ api.op = "none"
  /\ \E input \in QueryInputs :
       api' = [op |-> "query", input |-> input,
               output |-> IF file.state = "ok" THEN queryHandler(input, file.items)
                          ELSE [threw |-> TRUE, results |-> <<>>, total |-> 0]]
  /\ UNCHANGED <<file, clock, last, procs, throttle>>

QueryNext == Publish \/ Query

SpecQuery == Init /\ [][QueryNext]_vars

\* ------------------------------------------------ the normalizers of the API
\* normalizeDomain of the site audit (unnamed/part_000), of the experience
\* route (unnamed/part_004) and of the submission intake
\* (app/api/submit-webmcp-site/route.ts).  All three parse the input as a URL
\* and test the host name.

Null == [ok |-> FALSE, host |-> <<>>]
Host(h) == [ok |-> TRUE, host |-> h]

\* a host name of 252 characters
LongHost == "x{248}.com"

SchemeToks == {"https://", "HTTPS://"}

\* what ends the host in a URL: a port, a path
AfterHostToks == {":8080", "/p"}

TokLen(tok) ==
  CASE tok = "www." -> 4 [] tok = "a.com" -> 5 [] tok = "b.com" -> 5
    [] tok = "localhost" -> 9 [] tok = "printer.local" -> 13
    [] tok = "10.0.0.1" -> 8 [] tok = "127.0.0.1" -> 9
    [] tok = "a_b.com" -> 7 [] tok = "a b.com" -> 7
    [] tok = LongHost -> 252 [] OTHER -> 1

RECURSIVE StrLen(_)
StrLen(s) == IF s = <<>> THEN 0 ELSE TokLen(Head(s)) + StrLen(Tail(s))

\* host.includes(".")
HasDot(s) == \E i \in 1..Len(s) : s[i] # "localhost"

\* /^[a-z0-9.-]+$/.test(host)
CharsOk(s) == s # <<>> /\ \A i \in 1..Len(s) : s[i] \notin {"a_b.com", "a b.com", " "}

\* /^\\d{1,3}(?:\\.\\d{1,3}){3}$/.test(host): in the regular expression literal
\* "\\" is an escaped backslash, so the pattern asks for a backslash, one to
\* three letters d, and three times a backslash, any character, a backslash and
\* one to three letters d
BackslashPattern(s) == s = <<"\\d\\.\\d\\.\\d\\.\\d">>

\* the same pattern with single backslashes: four groups of one to three digits
DottedQuad(s) == s \in {<<"10.0.0.1">>, <<"127.0.0.1">>}

\* host.endsWith(".local")
EndsWithLocal(s) == s # <<>> /\ s[Len(s)] = "printer.local"

\* /^www\\./ in part_004: "www", a backslash and any character
StripWwwBackslash(s) == IF s # <<>> /\ Head(s) = "www\\." THEN Tail(s) ELSE s

RECURSIVE HostPart(_)
\* the tokens up to the port or the path
HostPart(s) ==
  IF s = <<>> \/ Head(s) \in AfterHostToks THEN <<>> ELSE <<Head(s)>> \o HostPart(Tail(s))

\* raw.includes("://") ? new URL(raw) : new URL(`https://${raw}`), then
\* .hostname: the URL parser lower-cases the host and throws on an empty host
\* and on a host with a forbidden character (a space)
urlHostname(raw) ==
  LET rest == IF Head(raw) \in SchemeToks THEN Tail(raw) ELSE raw
      host == ToLowerCase(HostPart(rest))
  IN IF host = <<>> \/ \E i \in 1..Len(host) : host[i] \in {"a b.com", " "}
     THEN Null ELSE Host(host)

\* unnamed/part_000, lines 67-83
auditNormalizeDomain(input) ==
  LET raw == TrimEnd(TrimStart(input))
      u == IF raw = <<>> THEN Null ELSE urlHostname(raw)
      host == StripWww(ToLowerCase(u.host))
  IN IF raw = <<>> \/ ~u.ok THEN Null
     ELSE IF ~HasDot(host) THEN Null
     ELSE IF StrLen(host) > 255 THEN Null
     ELSE IF ~CharsOk(host) THEN Null
     ELSE IF BackslashPattern(host) THEN Null
     ELSE IF EndsWithLocal(host) THEN Null
     ELSE Host(host)

\* unnamed/part_004, lines 118-133
experienceNormalizeDomain(input) ==
  LET raw == TrimEnd(TrimStart(input))
      u == IF raw = <<>> THEN Null ELSE urlHostname(raw)
      host == StripWwwBackslash(ToLowerCase(u.host))
  IN IF raw = <<>> \/ ~u.ok THEN Null
     ELSE IF ~HasDot(host) THEN Null
     ELSE IF StrLen(host) > 255 THEN Null
     ELSE IF ~CharsOk(host) THEN Null
     ELSE IF BackslashPattern(host) THEN Null
     ELSE IF EndsWithLocal(host) THEN Null
     ELSE Host(host)

\* app/api/submit-webmcp-site/route.ts, lines 35-51
submitNormalizeDomain(input) ==
  LET raw == TrimEnd(TrimStart(input))
      u == IF raw = <<>> THEN Null ELSE urlHostname(raw)
      host == StripWww(ToLowerCase(u.host))
  IN IF raw = <<>> \/ ~u.ok THEN Null
     ELSE IF ~HasDot(host) THEN Null
     ELSE IF ~CharsOk(host) THEN Null
     ELSE IF StrLen(host) > 255 THEN Null
     ELSE Host(host)

\* scripts/scan_webmcp_directory.ts: the callers skip an empty result
scanNormalizeDomain(input) ==
  LET d == normalizeDomain(input) IN IF d = <<>> THEN Null ELSE Host(d)

NormalizerHosts ==
  {"a.com", "B.COM", "localhost", "printer.local", "10.0.0.1", "127.0.0.1",
   "a_b.com", "a b.com", LongHost}

NormalizerInputs ==
  {lead \o scheme \o www \o host \o tail :
     lead \in {<<>>, <<" ">>},
     scheme \in {<<>>, <<"https://">>, <<"HTTPS://">>},
     www \in {<<>>, <<"www.">>, <<"WWW.", "www.">>},
     host \in {<<>>} \cup {<<h>> : h \in NormalizerHosts},
     tail \in {<<>>, <<"/p">>, <<":8080">>, <<" ">>}}

\* one string given to the four normalizers (pure functions: one call per
\* behaviour shows them all)
Normalize ==
  /\ api.op = "none"
  /\ \E input \in NormalizerInputs :
       api' = [op |-> "normalize", input |-> input,
               output |-> [scan |-> scanNormalizeDomain(input),
                           audit |-> auditNormalizeDomain(input),
                           experience |-> experienceNormalizeDomain(input),
                           submit |-> submitNormalizeDomain(input)]]
  /\ UNCHANGED <<file, clock, last, procs, throttle>>

NormalizeNext == Normalize

SpecNormalize == Init /\ [][NormalizeNext]_vars

\* ------------------------------------------------- the framework registry
\* lib/config.ts, lib/agentic/registry.ts and app/api/frameworks/[id]/route.ts.
\* The value of ENABLED_FRAMEWORKS is a sequence of tokens: ids, "," and " ".

RECURSIVE SplitComma(_, _)
\* value.split(","): cur is the piece being read
SplitComma(s, cur) ==
  IF s = <<>> THEN <<cur>>
  ELSE IF Head(s) = "," THEN <<cur>> \o SplitComma(Tail(s), <<>>)
  ELSE SplitComma(Tail(s), Append(cur, Head(s)))

\* null is [isNull |-> TRUE]
parseEnabledFrameworks(env) ==
  IF ~env.set \/ env.value = <<>> THEN [isNull |-> TRUE, ids |-> {}]
  ELSE LET pieces == SplitComma(env.value, <<>>)
           ids == {TrimEnd(TrimStart(pieces[i])) : i \in 1..Len(pieces)} \ {<<>>}
       IN IF ids = {} THEN [isNull |-> TRUE, ids |-> {}]
          ELSE [isNull |-> FALSE, ids |-> ids]

\* registry: a function from the registered ids to their own enabled flag
getFramework(registry, env, id) ==
  IF id \notin DOMAIN registry THEN [found |-> FALSE, enabled |-> FALSE]
  ELSE LET allowlist == parseEnabledFrameworks(env)
           enabledByConfig == IF allowlist.isNull THEN TRUE ELSE <<id>> \in allowlist.ids
       IN [found |-> TRUE, enabled |-> registry[id] /\ enabledByConfig]

\* the response of the route and whether def.handler was called
executeFramework(registry, env, id, handlerThrows) ==
  LET def == getFramework(registry, env, id)
  IN IF ~def.found THEN [status |-> 404, invoked |-> FALSE]
     ELSE IF ~def.enabled THEN [status |-> 403, invoked |-> FALSE]
     ELSE [status |-> IF handlerThrows THEN 500 ELSE 200, invoked |-> TRUE]

FrameworkIds == {"ping", "directory.webmcp", "site.audit.agent_ready"}

\* the registrations of registry.ts, and the same with one definition whose
\* own flag is false
Registries ==
  {[id \in FrameworkIds |-> TRUE],
   [id \in FrameworkIds |-> id # "directory.webmcp"]}

EnabledFrameworksValues ==
  {[set |-> FALSE, value |-> <<>>]}
  \cup {[set |-> TRUE, value |-> v] :
          v \in {<<>>, <<" ">>, <<",">>, <<" ", ",", " ">>,
                 <<"ping">>, <<"directory.webmcp">>,
                 <<"ping", ",", " ", "directory.webmcp", " ">>,
                 <<"site.audit.agent_ready", ",", "directory.webmcp", ",">>,
                 <<"ping", " ", "directory.webmcp">>}}

\* one request to /api/frameworks/[id]
Execute ==
  /\ api.op = "none"
  /\ \E registry \in Registries, env \in EnabledFrameworksValues,
        id \in FrameworkIds \cup {"no.such.framework"}, handlerThrows \in BOOLEAN :
       api' = [op |-> "execute",
               input |-> [registry |-> registry, env |-> env, id |-> id,
                          handlerThrows |-> handlerThrows],
               output |-> executeFramework(registry, env, id, handlerThrows)]
  /\ UNCHANGED <<file, clock, last, procs, throttle>>

ExecuteNext == Execute

SpecRegistry == Init /\ [][ExecuteNext]_vars

\* ------------------------------------------------- the probes, by response
\* What the two probes of the scanner (checkWellKnown, checkHomepage) and of
\* the site audit (unnamed/part_000) make of one response.  A response is the
\* fetch rejecting, or a status with a body; reading the body may reject too.
\* A manifest body is a JSON text, a homepage body a sequence of tokens.

ProbeStatuses == {200, 201, 404, 503}

\* res.ok
ResOk(status) == status \in 200..299

ManifestBodies == {"{\"tools\":[]}", "{\"error\":\"not found\"}", "[]", "null", "0", "\"ok\"", "<html>"}

\* JSON.parse(text): threw, or the kind of the value and whether it is truthy
JsonParse(text) ==
  CASE text \in {"{\"tools\":[]}", "{\"error\":\"not found\"}"}
         -> [threw |-> FALSE, kind |-> "object", truthy |-> TRUE]
    [] text = "[]" -> [threw |-> FALSE, kind |-> "array", truthy |-> TRUE]
    [] text = "null" -> [threw |-> FALSE, kind |-> "null", truthy |-> FALSE]
    [] text = "0" -> [threw |-> FALSE, kind |-> "number", truthy |-> FALSE]
    [] text = "\"ok\"" -> [threw |-> FALSE, kind |-> "string", truthy |-> TRUE]
    [] OTHER -> [threw |-> TRUE, kind |-> "none", truthy |-> FALSE]

\* typeof v === "object"
TypeofObject(v) == v.kind \in {"object", "array", "null"}

\* json && typeof json === "object"
TruthyObject(v) == ~v.threw /\ v.truthy /\ TypeofObject(v)

FetchThrows == [fetch |-> "throw", status |-> 0, read |-> "none", body |-> <<>>]

ManifestResponses ==
  {FetchThrows}
  \cup {[fetch |-> "ok", status |-> s, read |-> "ok", body |-> b] :
          s \in ProbeStatuses, b \in ManifestBodies}
  \cup {[fetch |-> "ok", status |-> s, read |-> "throw", body |-> <<>>] : s \in ProbeStatuses}

\* checkWellKnown, up to the answer of the network that the model of a run
\* starts from (WkResponses)
wkResponseOf(resp) ==
  IF resp.fetch = "throw" THEN "throw"
  ELSE IF ~ResOk(resp.status) THEN "non2xx"
  ELSE IF resp.read = "throw" THEN "badjson"
  ELSE IF TruthyObject(JsonParse(resp.body)) THEN "object"
  ELSE "badjson"

\* wkOk of main for a response: checkWellKnown and the try/catch around it
scanWellKnownOk(resp) ==
  LET wk == checkWellKnown(<<"a.com">>, wkResponseOf(resp))
  IN IF wk.threw THEN FALSE ELSE wk.ok

\* wellKnownStrong of the audit: the status is recorded and not tested
auditWellKnownStrong(resp) ==
  IF resp.fetch = "throw" \/ resp.read = "throw" THEN FALSE
  ELSE TruthyObject(JsonParse(resp.body))

\* text.toLowerCase(), token by token
LowerHtml(tok) ==
  CASE tok \in {"navigator.modelContext", "NAVIGATOR.MODELCONTEXT"} -> "navigator.modelcontext"
    [] tok = "registerTool" -> "registertool"
    [] tok = "provideContext" -> "providecontext"
    [] OTHER -> tok

\* the lower-cased token has the lower-cased hint as a substring
TokIncludes(tok, hint) ==
  \/ tok = hint
  \/ tok = "react-webmcp" /\ hint = "webmcp"

\* lc.includes(hint)
HtmlIncludes(body, hint) ==
  \E i \in 1..Len(body) : TokIncludes(LowerHtml(body[i]), hint)

HomepageBodies ==
  {<<>>, <<"<p>">>, <<"navigator.modelContext">>, <<"<p>", "NAVIGATOR.MODELCONTEXT">>,
   <<"registerTool">>, <<"webmcp">>, <<"mcp-b">>,
   <<"navigator.modelContext", "<p>", "react-webmcp">>}

HomepageResponses ==
  {FetchThrows}
  \cup {[fetch |-> "ok", status |-> s, read |-> "ok", body |-> b] :
          s \in ProbeStatuses, b \in HomepageBodies}
  \cup {[fetch |-> "ok", status |-> s, read |-> "throw", body |-> <<>>] : s \in ProbeStatuses}

\* checkHomepage, up to the answer of the network that the model of a run
\* starts from (HomeResponses)
homeResponseOf(resp) ==
  IF resp.fetch = "throw" THEN [res |-> "throw", modelContext |-> FALSE, other |-> FALSE]
  ELSE IF ~ResOk(resp.status) THEN [res |-> "non2xx", modelContext |-> FALSE, other |-> FALSE]
  ELSE IF resp.read = "throw" THEN [res |-> "throw", modelContext |-> FALSE, other |-> FALSE]
  ELSE [res |-> "2xx",
        modelContext |-> HtmlIncludes(resp.body, "navigator.modelcontext"),
        other |-> \E hint \in {"registertool", "providecontext", "mcp-b", "react-webmcp", "webmcp"} :
                    HtmlIncludes(resp.body, hint)]

\* homeOk, modelContext, other and homeEv of main for a response
scanHomepage(resp) ==
  LET h == checkHomepage(<<"a.com">>, homeResponseOf(resp))
  IN IF h.threw
     THEN [ok |-> FALSE, modelContext |-> FALSE, other |-> FALSE, evidence |-> <<>>]
     ELSE [ok |-> h.ok, modelContext |-> h.modelContext, other |-> h.other,
           evidence |-> h.evidence]

HTML_HINTS ==
  <<"navigator.modelContext", "registerTool", "provideContext", "mcp-b", "react-webmcp">>

\* modelContextHit, otherHits and matched_hints of the audit: the status is
\* recorded and not tested
auditHomepage(resp) ==
  IF resp.fetch = "throw" \/ resp.read = "throw"
  THEN [modelContextHit |-> FALSE, otherHits |-> FALSE, matched |-> {}]
  ELSE LET matched == {HTML_HINTS[i] : i \in {j \in 1..Len(HTML_HINTS) :
                          HtmlIncludes(resp.body, LowerHtml(HTML_HINTS[j]))}}
       IN [modelContextHit |-> "navigator.modelContext" \in matched,
           otherHits |-> \E h \in matched : h # "navigator.modelContext",
           matched |-> matched]

\* computeConfidence of the audit
auditComputeConfidence(wellKnownOk, modelContextHit, otherHits) ==
  Min(100, (IF wellKnownOk THEN 70 ELSE 0)
           + (IF modelContextHit THEN 60 ELSE 0)
           + (IF otherHits THEN 25 ELSE 0))

\* verificationStatus of the audit
auditVerificationStatus(wellKnownOk, modelContextHit) ==
  IF wellKnownOk \/ modelContextHit THEN "verified" ELSE "unverified"

\* one domain probed by the scanner and by the audit, with the same responses
Probe ==
  /\ api.op = "none"
  /\ \E wk \in ManifestResponses, home \in HomepageResponses :
       LET a == auditHomepage(home)
       IN api' = [op |-> "probe",
                  input |-> [wk |-> wk, home |-> home],
                  output |-> [scanWkOk |-> scanWellKnownOk(wk),
                              auditWkOk |-> auditWellKnownStrong(wk),
                              scanHome |-> scanHomepage(home),
                              auditHome |-> a,
                              auditConfidence |->
                                auditComputeConfidence(auditWellKnownStrong(wk),
                                                       a.modelContextHit, a.otherHits),
                              auditVerification |->
                                auditVerificationStatus(auditWellKnownStrong(wk),
                                                        a.modelContextHit)]]
  /\ UNCHANGED <<file, clock, last, procs, throttle>>

ProbeNext == Probe

SpecProbe == Init /\ [][ProbeNext]_vars

\* ------------------------------------------------------------ the throttle
\* throttledFetch (scan_webmcp_directory.ts lines 60-74).  Every request of
\* the scanner goes through it.  The scanner awaits each call, and the reading
\* of the response, before it makes the next call, so in the scanner there is
\* one caller (SpecThrottle); the function itself takes any number
\* (SpecThrottleAll).

\* variant: the subtraction without its parentheses
throttleWait_noParens(now, lastFetchAt) ==
  Max(0, MIN_REQUEST_INTERVAL_MS - now - lastFetchAt)

\* Math.max(0, MIN_REQUEST_INTERVAL_MS - (now - lastFetchAt))
throttleWait(now, lastFetchAt) ==
  Max(0, MIN_REQUEST_INTERVAL_MS - (now - lastFetchAt))

\* lines 65-70: lastFetchAt = Date.now(), the abort timer is set, the fetch is
\* started
StartFetch(t, c) ==
  [t EXCEPT !.lastFetchAt = t.now, !.pc[c] = "fetching",
            !.begunAt[c] = t.now, !.timer[c] = TRUE,
            !.prevStartedAt = t.startedAt, !.prevCompletedAt = t.completedAt,
            !.startedAt = t.now, !.completedAt = NoTime]

\* lines 62-64: the call reads the clock and sleeps for the rest of the interval
ThrottleCall(c) ==
  /\ throttle.pc[c] = "idle"
  /\ \E wait \in {throttleWait(throttle.now, throttle.lastFetchAt)} :
       throttle' = IF wait > 0
                   THEN [throttle EXCEPT !.pc[c] = "sleeping", !.wakeAt[c] = throttle.now + wait]
                   ELSE StartFetch(throttle, c)
  /\ UNCHANGED <<file, clock, last, procs, api>>

\* the timer of line 64 fires, when it is due or later
ThrottleWake(c) ==
  /\ throttle.pc[c] = "sleeping"
  /\ throttle.now >= throttle.wakeAt[c]
  /\ throttle' = StartFetch(throttle, c)
  /\ UNCHANGED <<file, clock, last, procs, api>>

\* the fetch of line 70 comes back, with the response (its status and headers
\* are there, its body is not read yet), with an error, or aborted by the
\* timer of line 68; the finally block clears the timer (line 72).  With a 2xx
\* response the caller goes on to read the body.
FetchReturn(c) ==
  /\ throttle.pc[c] = "fetching"
  /\ \E next \in {"reading", "idle"} :
       throttle' = [throttle EXCEPT !.pc[c] = next, !.timer[c] = FALSE,
                                    !.completedAt = throttle.now]
  /\ UNCHANGED <<file, clock, last, procs, api>>

\* res.json() or res.text() settles: the server sent the rest of the body, or
\* the connection broke
BodyRead(c) ==
  /\ throttle.pc[c] = "reading"
  /\ throttle' = [throttle EXCEPT !.pc[c] = "idle"]
  /\ UNCHANGED <<file, clock, last, procs, api>>

\* time passes; a request in flight is aborted REQUEST_TIMEOUT_MS after its start
TimePasses ==
  /\ throttle.now < MIN_REQUEST_INTERVAL_MS + MaxTicks * TimeStep
  /\ \A c \in Callers :
       (throttle.pc[c] = "fetching" /\ throttle.timer[c])
         => throttle.now - throttle.begunAt[c] < REQUEST_TIMEOUT_MS
  /\ throttle' = [throttle EXCEPT !.now = throttle.now + TimeStep]
  /\ UNCHANGED <<file, clock, last, procs, api>>

ThrottleNext ==
  ThrottleCall(1) \/ ThrottleWake(1) \/ FetchReturn(1) \/ BodyRead(1) \/ TimePasses

SpecThrottle == Init /\ [][ThrottleNext]_vars

\* throttledFetch called by two callers that do not wait for each other
ThrottleAllNext ==
  \/ \E c \in Callers : ThrottleCall(c) \/ ThrottleWake(c) \/ FetchReturn(c) \/ BodyRead(c)
  \/ TimePasses

SpecThrottleAll == Init /\ [][ThrottleAllNext]_vars

\* ------------------------------------------------------------------ claims
\* What a claim calls the outcome of a run's probes, read off the network's
\* answers and not off what the run computed from them.

StrongOf(probe) ==
  probe.wk = "object" \/ (probe.home.res = "2xx" /\ probe.home.modelContext)

TransportFailed(probe) ==
  probe.wk \in {"throw", "non2xx"} /\ probe.home.res \in {"throw", "non2xx"}

NeitherOk(probe) == probe.wk # "object" /\ probe.home.res # "2xx"

NoHint(probe) == ~(probe.home.res = "2xx" /\ (probe.home.modelContext \/ probe.home.other))

Entries == {last.entries[i] : i \in 1..Len(last.entries)}

Items == {file.items[i] : i \in 1..Len(file.items)}

EvKeysOf(it) == {EvKey(it.evidence[k]) : k \in 1..Len(it.evidence)}

ProofKeysOf(it) == {ProofKey(it.proof[k]) : k \in 1..Len(it.proof)}

\* the fields of the program, without the history field
ProgramFields(it) == [f \in DOMAIN it \ {"scenC"} |-> it[f]]

\* C1: a run turns verification_status into verified only with a strong
\* success and a confidence of at least 80, and with both the result is
\* verified whatever the prior value was.
C1_VerifiedOnlyWhenStrongAnd80 ==
  \A e \in Entries :
    /\ (e.new.verification_status = "verified" /\ e.prev.verification_status # "verified")
         => (StrongOf(e.probe) /\ e.new.confidence >= 80)
    /\ (StrongOf(e.probe) /\ e.new.confidence >= 80)
         => e.new.verification_status = "verified"

\* a revoked record is verified again by a strong run of confidence >= 80
C1_Witness ==
  \E e \in Entries :
    /\ e.prev.had /\ e.prev.verification_status = "revoked"
    /\ StrongOf(e.probe) /\ e.new.confidence >= 80
    /\ e.new.verification_status = "verified"

\* C2: a run turns verification_status into revoked only from verified, with
\* a resulting fail_streak of at least 5 and no strong success; a record that
\* was unverified or absent is never revoked.
C2_RevokedOnlyFromVerified ==
  \A e \in Entries :
    /\ (e.new.verification_status = "revoked" /\ e.prev.verification_status # "revoked")
         => /\ e.prev.had /\ e.prev.verification_status = "verified"
            /\ e.new.fail_streak >= 5
            /\ ~StrongOf(e.probe)
    /\ (~e.prev.had \/ e.prev.verification_status = "unverified")
         => e.new.verification_status # "revoked"

\* the run that revokes, and in the same model an unverified record at streak 5
C2_Witness ==
  \E e \in Entries :
    /\ e.prev.had /\ e.prev.verification_status = "verified"
    /\ e.new.verification_status = "revoked" /\ e.new.fail_streak = 5

\* C3: from the record a run loads to the record it writes, fail_streak does
\* not decrease, unless it becomes exactly 0 in a run with a strong success;
\* it is never negative.
C3_FailStreakMonotone ==
  \A e \in Entries :
    /\ e.new.fail_streak >= 0
    /\ \/ e.new.fail_streak >= e.prev.fail_streak
       \/ (e.new.fail_streak = 0 /\ StrongOf(e.probe))

\* a streak of at least 2 reset by a strong success
C3_Witness ==
  \E e \in Entries :
    e.prev.had /\ e.prev.fail_streak >= 2 /\ e.new.fail_streak = 0 /\ StrongOf(e.probe)

\* C4 (scenario C): k consecutive runs without a 2xx response from either
\* probe, from a verified record with fail_streak 0, give fail_streak k for
\* k = 1..5, status dead exactly from k = 3, verification_status verified
\* while k < 5 and revoked at k = 5.
C4_ScenarioC ==
  \A it \in Items :
    it.scenC \in 1..5 =>
      /\ it.fail_streak = it.scenC
      /\ (it.status = "dead") <=> (it.scenC >= 3)
      /\ (it.scenC < 5) => it.verification_status = "verified"
      /\ (it.scenC = 5) => it.verification_status = "revoked"

\* the fifth failing run has happened
C4_Witness ==
  \E e \in Entries :
    /\ TransportFailed(e.probe) /\ e.new.scenC = 5
    /\ e.new.verification_status = "revoked" /\ e.new.status = "dead"

\* C5: the record a run writes keeps every evidence key (kind, detail, url)
\* and every proof key (type, url) of the record it loaded, and no item holds
\* two evidence entries or two proof entries with the same key.
C5_LedgersGrowDeduplicated ==
  /\ \A e \in Entries :
       /\ e.prev.evKeys \subseteq EvKeysOf(e.new)
       /\ e.prev.proofKeys \subseteq ProofKeysOf(e.new)
  /\ \A it \in Items :
       /\ Cardinality(EvKeysOf(it)) = Len(it.evidence)
       /\ Cardinality(ProofKeysOf(it)) = Len(it.proof)

\* a run that re-observes recorded evidence and proofs and fails to re-observe others
C5_Witness ==
  \E e \in Entries :
    /\ Cardinality(e.prev.evKeys) >= 2 /\ Cardinality(e.prev.proofKeys) = 2
    /\ e.probe.wk = "object" /\ e.probe.home.res = "non2xx"
    /\ Len(e.new.evidence) = Cardinality(e.prev.evKeys)

\* C6: every item a run writes has a confidence in 0..100.
C6_ConfidenceInRange ==
  \A e \in Entries : e.new.confidence \in 0..100

\* an item whose weights add up to more than 100
C6_Witness ==
  \E e \in Entries :
    /\ {"well_known_mcp_json", "github_hit"} \subseteq evidenceKinds(e.new.evidence)
    /\ e.probe.home.res = "2xx" /\ e.probe.home.modelContext /\ e.probe.home.other
    /\ e.new.confidence = 100

\* C7 (scenario A): no prior record, no discovery evidence, the manifest
\* answers with a JSON object and the homepage shows no hint: confidence 70,
\* status likely, verification_status unverified.
C7_ScenarioA ==
  \A e \in Entries :
    (~e.prev.had /\ e.evFromDiscovery = <<>> /\ e.probe.wk = "object" /\ NoHint(e.probe))
      => /\ e.new.confidence = 70
         /\ e.new.status = "likely"
         /\ e.new.verification_status = "unverified"

C7_Witness ==
  \E e \in Entries :
    /\ ~e.prev.had /\ e.evFromDiscovery = <<>> /\ e.probe.wk = "object"
    /\ e.probe.home.res = "2xx" /\ NoHint(e.probe)
    /\ e.new.confidence = 70 /\ e.new.status = "likely"

\* the second pass of the merge over what the first pass wrote, with the same
\* discovery evidence, the same answers of the network and the same clock
SecondPass(e) ==
  RecomputeItem(e.domain, <<e.new>>, e.evFromDiscovery, e.probe.wk, e.probe.home, last.now)

\* C8 as claimed: from a record whose fail_streak is below every threshold, the
\* second pass writes what the first pass wrote, whatever the probes answered.
C8_IdempotentForAllProbes ==
  \A e \in Entries :
    e.prev.fail_streak < 3 => ProgramFields(SecondPass(e)) = ProgramFields(e.new)

\* C8 as amended: the same, for the runs in which the manifest probe is ok or
\* the homepage answers 2xx; when neither is, each pass adds one to fail_streak.
C8_IdempotentUnlessBothFail ==
  \A e \in Entries :
    /\ (e.prev.fail_streak < 3 /\ ~NeitherOk(e.probe))
         => ProgramFields(SecondPass(e)) = ProgramFields(e.new)
    /\ (e.prev.fail_streak < 3 /\ NeitherOk(e.probe))
         => SecondPass(e).fail_streak = e.new.fail_streak + 1

\* a first pass that changed the record: new evidence, two proofs, a reset streak
C8_Witness ==
  \E e \in Entries :
    /\ e.prev.had /\ e.prev.fail_streak \in 1..2 /\ e.prev.proofKeys = {}
    /\ e.probe.wk = "object" /\ e.probe.home.res = "2xx" /\ e.probe.home.modelContext
    /\ Len(e.new.proof) = 2

\* C9 as claimed: a run keeps every domain of the file it read, and leaves
\* every item whose domain it did not select as it was.
C9_Step ==
  \A i \in 1..Len(file.items) :
    /\ \E j \in 1..Len(file'.items) : file'.items[j].domain = file.items[i].domain
    /\ (\A k \in 1..Len(last'.domains) : last'.domains[k] # file.items[i].domain)
         => \E j \in 1..Len(file'.items) : file'.items[j] = file.items[i]

C9_NoItemDeleted == [][C9_Step]_vars

\* C10 as claimed: no two items of a written file share a domain, and the
\* domain of every item a run builds is a fixed point of normalizeDomain.
C10_DomainsUniqueNormalized ==
  /\ \A i, j \in 1..Len(file.items) : i # j => file.items[i].domain # file.items[j].domain
  /\ \A e \in Entries : normalizeDomain(e.new.domain) = e.new.domain

\* what the run of this step read and staged, from the file before the step
StepExisting == IF file.state = "ok" THEN file.items ELSE <<>>
StepCandidates == stageCandidates(last'.seeds, last'.feed)

\* the answers of the network in this step, one pair per selected domain
StepProbes == [i \in 1..Len(last'.entries) |-> last'.entries[i].probe]

\* an answer of the network to one domain in which a probe does not succeed
ProbeFails(probe) == probe.wk # "object" \/ probe.home.res # "2xx"

\* C11: a run in which a probe of a domain fails (the fetch rejects, the status
\* is not 2xx, the body does not parse) still ends with exit code 0 and a
\* written file, builds and writes an item for every selected domain, and
\* builds for every domain the item it would have built had both probes of
\* every other domain succeeded.
C11_Step ==
  /\ last'.exit = "0" /\ file'.state = "ok"
  /\ Len(last'.entries) = Len(last'.domains)
  /\ \A i \in 1..Len(last'.domains) :
       /\ last'.entries[i].domain = last'.domains[i]
       /\ \E j \in 1..Len(file'.items) : file'.items[j] = last'.entries[i].new
       /\ LET q == [j \in 1..Len(last'.domains) |->
                      IF j = i THEN StepProbes[i] ELSE ProbeSuccess]
          IN RunEntries(StepExisting, StepCandidates, last'.domains, q, last'.now)[i].new
               = last'.entries[i].new

C11_ProbeFailureIsolated == [][C11_Step]_vars

\* a run in which neither probe of a.com succeeds and b.com is verified
C11_Witness ==
  /\ last.ran /\ Len(last.entries) = 2
  /\ last.entries[1].probe = [wk |-> "non2xx", home |-> HomeThrow]
  /\ last.entries[1].new.fail_streak = 1
  /\ last.entries[2].probe = ProbeSuccess
  /\ last.entries[2].new.verification_status = "verified"
  /\ Len(file.items) = 2

\* a step in which the scanner ran to its end, successfully or not
ScannerRan == last' # last \/ file'.state = "ok"

\* C12 as claimed: a run that finds the file missing, unparseable or parsed to
\* something that is no directory file starts from no prior record, ends with
\* exit code 0 and writes a file.
C12_Step ==
  (file.state \in DamagedStates /\ ScannerRan)
    => /\ last'.exit = "0"
       /\ file'.state = "ok"
       /\ \A i \in 1..Len(last'.entries) : ~last'.entries[i].prev.had

C12_DamagedSnapshotIsEmpty == [][C12_Step]_vars

\* C13 as claimed: whenever no process is inside the write, the file is a
\* complete snapshot (or was never written), a killed process included.
C13_SnapshotAtomic ==
  (\A p \in Procs : procs[p].pc # "writing") => file.state \in {"missing", "ok"}

\* the record of a domain in the file a process's write replaced (none: <<>>)
ReplacedRecord(pr, domain) ==
  SelectSeq(pr.replaced, LAMBDA it : it.domain = domain)

\* what the process wrote for the domain of e is the merge of this run's
\* findings into the record it replaced
MergedFromReplaced(pr, e) ==
  ProgramFields(e.new)
    = ProgramFields(RecomputeItem(e.domain, ReplacedRecord(pr, e.domain), e.evFromDiscovery,
                                  e.probe.wk, e.probe.home, pr.now))

\* the write of the process dropped something the replaced file recorded for
\* the domain of e: an evidence entry, a proof entry, a verified
\* verification_status, or a fail_streak the run should have added to
LostUpdate(pr, e) ==
  \E i \in 1..Len(pr.replaced) :
    LET cur == pr.replaced[i]
    IN /\ cur.domain = e.domain
       /\ \/ ~(EvKeysOf(cur) \subseteq EvKeysOf(e.new))
          \/ ~(ProofKeysOf(cur) \subseteq ProofKeysOf(e.new))
          \/ cur.verification_status = "verified" /\ e.new.verification_status = "unverified"
          \/ NeitherOk(e.probe) /\ e.new.fail_streak <= cur.fail_streak

\* C14: a process whose read-to-write interval met no other process's write
\* writes, for every domain it selected, the merge into the record it replaces,
\* and loses nothing of it; a write that loses an update of the replaced file
\* comes from a process that overlapped another one's write.
C14_SerializedRunsLoseNothing ==
  \A p \in Procs :
    procs[p].pc = "done" =>
      \A k \in 1..Len(procs[p].entries) :
        LET e == procs[p].entries[k]
        IN /\ ~procs[p].overlap => (MergedFromReplaced(procs[p], e) /\ ~LostUpdate(procs[p], e))
           /\ LostUpdate(procs[p], e) => procs[p].overlap

\* two runs read the empty directory; the first writes a verified a.com with
\* two evidence and two proof entries, the second overwrites it with a record
\* that has none of them
C14_Witness ==
  \E p \in Procs :
    /\ procs[p].pc = "done" /\ procs[p].overlap
    /\ file.state = "ok" /\ file.items = procs[p].out
    /\ Len(procs[p].replaced) = 1 /\ Len(procs[p].entries) = 1
    /\ procs[p].replaced[1].verification_status = "verified"
    /\ Len(procs[p].replaced[1].proof) = 2
    /\ LostUpdate(procs[p], procs[p].entries[1])
    /\ file.items[1].verification_status = "unverified"
    /\ file.items[1].evidence = <<>> /\ file.items[1].proof = <<>>

\* a request that was answered from a loaded directory
Answered == api.op = "query" /\ ~api.output.threw

\* the query of the request, trimmed and lower-cased (<<>>: none or blank)
AskedQuery ==
  IF api.input.isObject /\ api.input.query.t = "string"
  THEN ToLowerCase(TrimEnd(TrimStart(api.input.query.v))) ELSE <<>>

\* the limit in force: 10 by default, else the floor of the number within 1..50
AskedLimit ==
  IF api.input.isObject /\ api.input.limit.t = "number"
  THEN LET n == api.input.limit.v \div 2
       IN IF n < 1 THEN 1 ELSE IF n > 50 THEN 50 ELSE n
  ELSE 10

\* the place of an item in the order of the results: status rank, then
\* confidence descending, last_seen descending, domain ascending
OrderKey(x) ==
  <<STATUS_ORDER(x.status), 100 - x.confidence, MaxClock + 2 - x.last_seen, HostRank(x.domain)>>

KeyLeq(a, b) ==
  \/ a = b
  \/ \E k \in 1..4 : a[k] < b[k] /\ \A m \in 1..(k - 1) : a[m] = b[m]

\* what the response says of a directory item
Summary(it) ==
  [domain |-> it.domain, type |-> it.type, confidence |-> it.confidence,
   status |-> it.status, evidence_summary |-> summarizeEvidenceKinds(it),
   last_seen |-> it.last_seen]

\* the response is the first AskedLimit items, in order, of those at the
\* places passing
ResponseIs(passing) ==
  LET res == api.output.results
  IN /\ api.output.total = Cardinality(passing)
     /\ Len(res) = Min(Cardinality(passing), AskedLimit)
     /\ \A k \in 1..Len(res) : \E i \in passing : Summary(file.items[i]) = res[k]
     /\ \A k, m \in 1..Len(res) : k < m => KeyLeq(OrderKey(res[k]), OrderKey(res[m]))
     /\ \A i \in passing :
          \/ \E k \in 1..Len(res) : res[k] = Summary(file.items[i])
          \/ \A k \in 1..Len(res) : KeyLeq(OrderKey(res[k]), OrderKey(file.items[i]))

\* every filter of the request, as the request gives it
PassSupplied(it) ==
  /\ (api.input.isObject /\ api.input.status.t = "string") => it.status = api.input.status.v
  /\ (api.input.isObject /\ api.input.type.t = "array")
       => \E k \in 1..Len(it.type) : \E m \in 1..Len(api.input.type.v) :
            it.type[k] = api.input.type.v[m]
  /\ (api.input.isObject /\ api.input.min_confidence.t = "number")
       => 2 * it.confidence >= api.input.min_confidence.v
  /\ \/ Includes(ToLowerCase(it.domain), AskedQuery)
     \/ \E k \in 1..Len(it.evidence) : Includes(<<it.evidence[k].kind>>, AskedQuery)

\* the filters the handler recognises: a status among the four, the types of
\* the list that are webmcp or mcp-server (no filter when none is left), a
\* numeric min_confidence, and a query that is not blank, looked for in the
\* domain and in the sorted evidence kinds joined by single spaces
PassRecognised(it) ==
  LET types == IF api.input.isObject /\ api.input.type.t = "array"
               THEN {api.input.type.v[m] : m \in 1..Len(api.input.type.v)} \cap ItemTypes
               ELSE {}
  IN /\ (api.input.isObject /\ api.input.status.t = "string"
           /\ api.input.status.v \in Statuses) => it.status = api.input.status.v
     /\ types # {} => \E k \in 1..Len(it.type) : it.type[k] \in types
     /\ (api.input.isObject /\ api.input.min_confidence.t = "number")
          => 2 * it.confidence >= api.input.min_confidence.v
     /\ AskedQuery # <<>>
          => \/ Includes(ToLowerCase(it.domain), AskedQuery)
             \/ Includes(JoinSpace(summarizeEvidenceKinds(it)), AskedQuery)

ClaimedHost(input) ==
  LET raw == TrimEnd(TrimStart(input))
      rest == IF raw # <<>> /\ Head(raw) \in SchemeToks THEN Tail(raw) ELSE raw
  IN StripWww(ToLowerCase(HostPart(rest)))

\* C16 as claimed: the normalizer of the audit rejects a host without a dot,
\* longer than 255 characters, with a character outside [a-z0-9.-], that is a
\* dotted quad such as 10.0.0.1, or that ends in .local, and maps every other
\* input to its host.
C16_AuditNormalizerRejects ==
  api.op = "normalize" =>
    LET host == ClaimedHost(api.input)
        bad == \/ ~HasDot(host) \/ StrLen(host) > 255 \/ ~CharsOk(host)
               \/ DottedQuad(host) \/ EndsWithLocal(host)
    IN api.output.audit = IF bad THEN Null ELSE Host(host)

\* C17 as claimed: the normalizers of the scanner, of the audit and of the
\* submission intake reject the same inputs and return the same host for the
\* others.
C17_NormalizersAgree ==
  api.op = "normalize" =>
    /\ api.output.scan = api.output.audit
    /\ api.output.audit = api.output.submit

\* the kinds of the evidence keys of a loaded record
KindsOf(evKeys) == {k[1] : k \in evKeys}

\* what the ledger of an item weighs: 70 per manifest entry, 30 per github hit
LedgerWeight(it) ==
  70 * Cardinality({k \in 1..Len(it.evidence) : it.evidence[k].kind = "well_known_mcp_json"})
  + 30 * Cardinality({k \in 1..Len(it.evidence) : it.evidence[k].kind = "github_hit"})

\* what this run's homepage probe adds: 60 for navigator.modelContext, 25 for
\* a weaker hint, nothing when the page did not answer 2xx
HintWeight(probe) ==
  IF probe.home.res = "2xx"
  THEN (IF probe.home.modelContext THEN 60 ELSE 0) + (IF probe.home.other THEN 25 ELSE 0)
  ELSE 0

\* C18: a run over a record whose ledger holds a well_known_mcp_json entry
\* computes a confidence of at least 70 whatever its probes answer, and the
\* confidence of every run is the weight of the ledger plus what this run's
\* homepage probe found, capped at 100: a heuristic_html entry kept in the
\* ledger adds nothing.
C18_ManifestSticksHintDoesNot ==
  \A e \in Entries :
    /\ "well_known_mcp_json" \in KindsOf(e.prev.evKeys) => e.new.confidence >= 70
    /\ e.new.confidence = Min(100, LedgerWeight(e.new) + HintWeight(e.probe))
    /\ KindsOf(e.prev.evKeys) \subseteq evidenceKinds(e.new.evidence)

\* a record with a manifest entry and a heuristic_html entry, and a run in
\* which the manifest does not answer and the homepage shows no hint any more
C18_Witness ==
  \E e \in Entries :
    /\ {"well_known_mcp_json", "heuristic_html"} \subseteq KindsOf(e.prev.evKeys)
    /\ e.probe.wk = "non2xx" /\ e.probe.home.res = "2xx" /\ NoHint(e.probe)
    /\ e.evFromDiscovery = <<>>
    /\ "heuristic_html" \in evidenceKinds(e.new.evidence)
    /\ e.new.confidence = 70

\* the probes of a run found a hint, strong or weak
AnySignal(probe) ==
  StrongOf(probe) \/ (probe.home.res = "2xx" /\ probe.home.other)

\* C19: a run sets last_verified_success to its current time when it had a
\* strong success, and otherwise keeps the value of the record it loaded (null
\* without one); it sets last_seen to its current time when it had any
\* success signal, and otherwise keeps the value of the record it loaded (the
\* current time, the time of creation, without one).
C19_Step ==
  \A i \in 1..Len(last'.entries) :
    LET e == last'.entries[i]
        prev == existingMapGet(StepExisting, e.domain)
    IN /\ e.new.last_verified_success
            = IF StrongOf(e.probe) THEN last'.now
              ELSE IF prev # <<>> THEN prev[1].last_verified_success ELSE NoTime
       /\ e.new.last_seen
            = IF AnySignal(e.probe) THEN last'.now
              ELSE IF prev # <<>> THEN prev[1].last_seen ELSE last'.now
       /\ e.new.last_checked = last'.now

C19_TimestampsFollowSuccess == [][C19_Step]_vars

\* a record verified at time 0 and checked at time 1 by a run that only found
\* a weak hint: last_verified_success stays, last_seen moves
C19_Witness ==
  \E e \in Entries :
    /\ last.now = 1 /\ e.prev.had
    /\ ~StrongOf(e.probe) /\ AnySignal(e.probe)
    /\ e.new.last_verified_success = 0
    /\ e.new.last_seen = 1 /\ e.new.last_checked = 1

\* the ids the value of ENABLED_FRAMEWORKS lists: what stands between the
\* commas, without surrounding blanks
ListedIds(env) ==
  IF ~env.set THEN {}
  ELSE LET pieces == SplitComma(env.value, <<>>)
       IN {TrimEnd(TrimStart(pieces[i])) : i \in 1..Len(pieces)} \ {<<>>}

\* C20 as claimed: the handler of a registered framework is called only when
\* its id is listed in ENABLED_FRAMEWORKS and its own flag is true; otherwise,
\* the variable unset or empty included, the answer is 403 and the handler is
\* not called; an id that is not registered is answered 404.
C20_AllowlistRequired ==
  api.op = "execute" =>
    LET in == api.input
    IN IF in.id \notin DOMAIN in.registry
       THEN api.output.status = 404 /\ ~api.output.invoked
       ELSE IF <<in.id>> \in ListedIds(in.env) /\ in.registry[in.id]
            THEN api.output.invoked /\ api.output.status \in {200, 500}
            ELSE api.output.status = 403 /\ ~api.output.invoked

\* C21 as claimed: the ledger adds 30 to the confidence when it holds at least
\* one github_hit entry and 70 when it holds at least one well_known_mcp_json
\* entry, however many entries of the kind there are; with what this run's
\* homepage probe found, capped at 100, that is the confidence.
C21_LedgerWeightsCountOnce ==
  \A e \in Entries :
    e.new.confidence
      = Min(100, (IF "github_hit" \in evidenceKinds(e.new.evidence) THEN 30 ELSE 0)
                 + (IF "well_known_mcp_json" \in evidenceKinds(e.new.evidence) THEN 70 ELSE 0)
                 + HintWeight(e.probe))

\* the homepage of a run answered 2xx with the strong hint, with a weak hint
StrongHint(probe) == probe.home.res = "2xx" /\ probe.home.modelContext
WeakHint(probe) == probe.home.res = "2xx" /\ probe.home.other

\* C22 as claimed: the homepage adds 60 to the weight of the ledger when the
\* strong hint was found, the weak hints or not, and 25 when only a weak hint
\* was found.
C22_WeakHintOnlyWithoutStrong ==
  \A e \in Entries :
    e.new.confidence
      = Min(100, LedgerWeight(e.new)
                 + (IF StrongHint(e.probe) THEN 60
                    ELSE IF WeakHint(e.probe) THEN 25 ELSE 0))

\* C22 as amended: a weak hint found by this run's homepage probe adds 25
\* whether the strong hint was found or not, so a homepage with both adds 85;
\* without a weak hint the homepage adds 60 for the strong hint and else nothing.
C22_WeakHintAddsToStrong ==
  \A e \in Entries :
    /\ WeakHint(e.probe)
         => e.new.confidence
              = Min(100, LedgerWeight(e.new) + 25 + (IF StrongHint(e.probe) THEN 60 ELSE 0))
    /\ ~WeakHint(e.probe)
         => e.new.confidence
              = Min(100, LedgerWeight(e.new) + (IF StrongHint(e.probe) THEN 60 ELSE 0))

\* a first run without manifest and without discovery evidence whose homepage
\* shows both hints: the confidence is 85
C22_Witness ==
  \E e \in Entries :
    /\ ~e.prev.had /\ e.new.evidence # <<>> /\ LedgerWeight(e.new) = 0
    /\ StrongHint(e.probe) /\ WeakHint(e.probe)
    /\ e.new.confidence = 85

C24_StreakIsConsecutiveFailures ==
  \A e \in Entries :
    e.new.fail_streak = IF TransportFailed(e.probe) THEN e.prev.fail_streak + 1 ELSE 0

\* C24 as amended: fail_streak is the number of runs, since the last run with
\* a strong success or since the record was created, in which the manifest
\* probe did not succeed and the homepage did not answer 2xx.  That number is
\* 0 after a strong success, one more after such a run, and unchanged after a
\* run that reached the homepage without a strong success.
C24_StreakSinceStrongSuccess ==
  \A e \in Entries :
    /\ ~e.prev.had => e.prev.fail_streak = 0
    /\ e.new.fail_streak
         = IF StrongOf(e.probe) THEN 0
           ELSE IF NeitherOk(e.probe) THEN e.prev.fail_streak + 1
           ELSE e.prev.fail_streak

\* a record with two failed runs behind it, and a run that reaches the
\* homepage and finds no strong hint: the streak is still 2
C24_Witness ==
  \E e \in Entries :
    /\ e.prev.had /\ e.prev.fail_streak = 2
    /\ e.probe.home.res = "2xx" /\ ~StrongOf(e.probe)
    /\ e.new.fail_streak = 2

\* C25: the status a run writes is decided by the confidence it computed,
\* whether its probes had a strong success, and the fail_streak it wrote, in
\* this order: dead from a streak of 3, else verified with a confidence of at
\* least 80 and a strong success, else likely from 50, else unverified.  The
\* record the run loaded has no say.
C25_StatusFromCurrentRun ==
  \A e \in Entries :
    e.new.status
      = IF e.new.fail_streak >= 3 THEN "dead"
        ELSE IF e.new.confidence >= 80 /\ StrongOf(e.probe) THEN "verified"
        ELSE IF e.new.confidence >= 50 THEN "likely"
        ELSE "unverified"

\* a record with a streak of 3 or more, written as dead, that a run with a
\* strong success writes as verified; a confidence of 80 or more without a
\* strong success is in the same model (likely)
C25_Witness ==
  \E e \in Entries :
    /\ e.prev.had /\ e.prev.fail_streak >= 3
    /\ StrongOf(e.probe) /\ e.new.confidence >= 80
    /\ e.new.status = "verified"

\* C26: a run writes verification_method well_known when the manifest probe
\* succeeded, else modelContext_detected when the homepage showed the strong
\* hint, else the value of the record it loaded (null without one); a value
\* that is not null is never followed by null.
C26_Step ==
  \A i \in 1..Len(last'.entries) :
    LET e == last'.entries[i]
        prev == existingMapGet(StepExisting, e.domain)
    IN /\ e.new.verification_method
            = IF e.probe.wk = "object" THEN "well_known"
              ELSE IF StrongHint(e.probe) THEN "modelContext_detected"
              ELSE IF prev # <<>> THEN prev[1].verification_method ELSE "null"
       /\ (prev # <<>> /\ prev[1].verification_method # "null")
            => e.new.verification_method # "null"

C26_MethodCarriedForward == [][C26_Step]_vars

\* the third run in a row without a 2xx response, on a record that was
\* verified through its manifest: the method is still well_known
C26_Witness ==
  \E e \in Entries :
    /\ e.prev.had /\ e.prev.fail_streak >= 2 /\ TransportFailed(e.probe)
    /\ e.new.status = "dead"
    /\ e.new.verification_method = "well_known"

\* the types of an item as a set
TypesOf(it) == {it.type[k] : k \in 1..Len(it.type)}

\* the types the evidence of a run supports: mcp-server when the ledger it
\* wrote holds a manifest entry, webmcp when its homepage probe found a hint
SupportedTypes(e) ==
  (IF "well_known_mcp_json" \in evidenceKinds(e.new.evidence) THEN {"mcp-server"} ELSE {})
  \cup (IF StrongHint(e.probe) \/ WeakHint(e.probe) THEN {"webmcp"} ELSE {})

\* C27 as claimed: the type set a run writes is the set of supported types,
\* also when that set is empty.
C27_Step ==
  \A i \in 1..Len(last'.entries) :
    TypesOf(last'.entries[i].new) = SupportedTypes(last'.entries[i])

C27_TypesAreSupportedTypes == [][C27_Step]_vars

\* C27 as amended: the type set a run writes is the set of supported types
\* when that set is not empty, and the type set of the record it loaded
\* (empty without one) when it is empty.
C27_AmendedStep ==
  \A i \in 1..Len(last'.entries) :
    LET e == last'.entries[i]
        prev == existingMapGet(StepExisting, e.domain)
    IN /\ Cardinality(TypesOf(e.new)) = Len(e.new.type)
       /\ SupportedTypes(e) # {} => TypesOf(e.new) = SupportedTypes(e)
       /\ SupportedTypes(e) = {}
            => e.new.type = IF prev # <<>> THEN prev[1].type ELSE <<>>

C27_TypesKeptWhenNoneSupported == [][C27_AmendedStep]_vars

\* a record without manifest entry whose homepage once showed a hint, after a
\* run that found none: the item is still of type webmcp
C27_Witness ==
  \E e \in Entries :
    /\ e.prev.had /\ SupportedTypes(e) = {}
    /\ e.probe.home.res = "2xx"
    /\ "heuristic_html" \in evidenceKinds(e.new.evidence)
    /\ e.new.type = <<"webmcp">>

Probed == api.op = "probe"

\* the manifest response has a 2xx status and a body that parses as a JSON
\* object: not as an array, a scalar or null
ManifestIsObject(resp) ==
  /\ resp.fetch = "ok" /\ ResOk(resp.status) /\ resp.read = "ok"
  /\ ~JsonParse(resp.body).threw /\ JsonParse(resp.body).kind = "object"

\* C28 as claimed: the manifest probe of the scanner and the one of the audit
\* report success exactly for a 2xx response whose body parses as a JSON object.
C28_ManifestOkIffObject ==
  Probed => /\ api.output.scanWkOk <=> ManifestIsObject(api.input.wk)
            /\ api.output.auditWkOk <=> ManifestIsObject(api.input.wk)

\* the homepage response has a 2xx status
HomepageIs2xx(resp) == resp.fetch = "ok" /\ ResOk(resp.status)

\* C29 as claimed: without a 2xx response the homepage probe of the scanner
\* and the one of the audit report no hint and produce no heuristic_html
\* evidence (for the audit: no matched hint); with a 2xx response whose body
\* was read, modelContextHit says whether the lower-cased body contains
\* navigator.modelcontext.
C29_HintsOnlyFrom2xx ==
  Probed =>
    LET resp == api.input.home
        s == api.output.scanHome
        a == api.output.auditHome
    IN /\ ~HomepageIs2xx(resp)
            => /\ ~s.modelContext /\ ~s.other /\ s.evidence = <<>>
               /\ ~a.modelContextHit /\ ~a.otherHits /\ a.matched = {}
       /\ (HomepageIs2xx(resp) /\ resp.read = "ok")
            => /\ s.modelContext <=> HtmlIncludes(resp.body, "navigator.modelcontext")
               /\ a.modelContextHit <=> HtmlIncludes(resp.body, "navigator.modelcontext")

\* C30 as claimed: a request starts no earlier than MIN_REQUEST_INTERVAL_MS
\* after the request before it came back.
C30_IntervalAfterCompletion ==
  throttle.prevCompletedAt # NoTime
    => throttle.startedAt - throttle.prevCompletedAt >= MIN_REQUEST_INTERVAL_MS

\* C30 as amended: a request starts no earlier than MIN_REQUEST_INTERVAL_MS
\* after the request before it was started, and not before that request came
\* back.
C30_IntervalBetweenStarts ==
  throttle.prevStartedAt # NoTime
    => /\ throttle.startedAt - throttle.prevStartedAt >= MIN_REQUEST_INTERVAL_MS
       /\ throttle.startedAt >= throttle.prevCompletedAt
       /\ throttle.lastFetchAt = throttle.startedAt

\* a request that took 500 ms and the next one, started after a sleep, 1000 ms
\* after the first was started and 500 ms after it came back
C30_Witness ==
  /\ throttle.pc[1] = "fetching" /\ throttle.prevStartedAt # NoTime
  /\ throttle.prevCompletedAt - throttle.prevStartedAt = 500
  /\ throttle.startedAt - throttle.prevStartedAt = MIN_REQUEST_INTERVAL_MS
  /\ throttle.startedAt - throttle.prevCompletedAt = 500

\* C31 as claimed: whoever calls throttledFetch and however the calls
\* interleave, a request is started at least MIN_REQUEST_INTERVAL_MS after
\* the request started before it.
C31_ConcurrentCallersSerialized ==
  throttle.prevStartedAt # NoTime
    => throttle.startedAt >= throttle.prevStartedAt + MIN_REQUEST_INTERVAL_MS

\* C32 as claimed: a probe never waits for the server longer than the fixed
\* timeout: a caller that is inside the fetch, or reading the body of the
\* response, started its request no more than REQUEST_TIMEOUT_MS ago.
C32_ProbeBoundedByTimeout ==
  \A c \in Callers :
    throttle.pc[c] \in {"fetching", "reading"}
      => throttle.now - throttle.begunAt[c] <= REQUEST_TIMEOUT_MS

\* the candidate set of the last run: the keys of the Map stageCandidates
\* returns, in ascending order
LastCandidates == SortStrings(DOMAIN stageCandidates(last.seeds, last.feed))

\* C33 as claimed: the domains a run probes are the first MaxPerRun elements,
\* in ascending order, of the normalized and deduplicated union of the seed
\* and discovery domains, and no domain is probed twice in one run.
C33_SelectedAreFirstOfCandidates ==
  last.ran =>
    /\ last.domains = SubSeq(LastCandidates, 1, Min(Len(LastCandidates), MaxPerRun))
    /\ \A i, j \in 1..Len(last.domains) : i # j => last.domains[i] # last.domains[j]

\* a run in which the homepage answers 2xx with no hint and no probe has a
\* strong success
QuietHomepage(probe) ==
  probe.home.res = "2xx" /\ NoHint(probe) /\ ~StrongOf(probe)

\* C34 as claimed: a run in which the homepage answers 2xx with no hint and
\* there is no strong success writes the status unverified or likely, never
\* dead.
C34_NeverDeadWhileHomepageAnswers ==
  \A e \in Entries :
    QuietHomepage(e.probe) => e.new.status \in {"unverified", "likely"}

\* C34 as amended: such a run leaves fail_streak as it found it, and writes
\* the status dead when the streak it found is 3 or more, unverified or likely
\* when it is less.  So from the first such run onward the status is never
\* dead if the streak was below 3 then, and always dead if it was not.
C34_DeadOnlyByEarlierStreak ==
  \A e \in Entries :
    QuietHomepage(e.probe)
      => /\ e.new.fail_streak = e.prev.fail_streak
         /\ e.new.status \in (IF e.prev.fail_streak >= 3 THEN {"dead"}
                              ELSE {"unverified", "likely"})

\* a record with three failed runs behind it whose homepage now answers 2xx
\* with no hint: it is written dead again
C34_Witness ==
  \E e \in Entries :
    /\ QuietHomepage(e.probe)
    /\ e.prev.had /\ e.prev.fail_streak = 3
    /\ e.new.fail_streak = 3 /\ e.new.status = "dead"

\* C35 as claimed: the audit reports verified only with a strong success (a
\* manifest it accepts or the navigator.modelContext hint) and a confidence of
\* at least 80; an audit whose only signal is the manifest, confidence 70,
\* reports unverified.
C35_AuditVerifiedNeedsConfidence ==
  Probed =>
    LET o == api.output
    IN /\ o.auditVerification = "verified"
            => /\ o.auditWkOk \/ o.auditHome.modelContextHit
               /\ o.auditConfidence >= 80
       /\ (o.auditWkOk /\ ~o.auditHome.modelContextHit /\ ~o.auditHome.otherHits)
            => o.auditVerification = "unverified"

\* C36: in every snapshot reached from an empty directory, an item whose
\* verification_status is verified has a fail_streak below 5; so an item that
\* is dead and still verified has a fail_streak of 3 or 4.
C36_VerifiedStreakBelowFive ==
  \A it \in Items :
    it.verification_status = "verified"
      => /\ it.fail_streak < 5
         /\ it.status = "dead" => it.fail_streak \in {3, 4}

\* a verified item after four failed runs: dead and still verified
C36_Witness ==
  \E it \in Items :
    it.verification_status = "verified" /\ it.status = "dead" /\ it.fail_streak = 4

\* C37: an item a run recomputes with status verified has verification_status
\* verified and fail_streak 0, and an item it recomputes with status dead had
\* no strong success in that run.
C37_StatusAgreesWithVerification ==
  \A e \in Entries :
    /\ e.new.status = "verified"
         => e.new.verification_status = "verified" /\ e.new.fail_streak = 0
    /\ e.new.status = "dead" => ~StrongOf(e.probe)

\* a record that was not verified and had failed runs behind it is recomputed
\* with status verified
C37_Witness ==
  \E e \in Entries :
    /\ e.prev.had /\ e.prev.fail_streak >= 1 /\ e.prev.verification_status # "verified"
    /\ e.new.status = "verified"
    /\ e.new.verification_status = "verified" /\ e.new.fail_streak = 0

\* C38: in every snapshot reached from an empty directory, an item whose
\* verification_status is verified or revoked has a verification_method, a
\* last_verified_success and at least one proof entry.
C38_VerifiedHasMethodAndProof ==
  \A it \in Items :
    it.verification_status \in {"verified", "revoked"}
      => /\ it.verification_method # "null"
         /\ it.last_verified_success # NoTime
         /\ Len(it.proof) >= 1

\* a revoked item: it still names its method, its last success and its proof
C38_Witness ==
  \E it \in Items :
    /\ it.verification_status = "revoked"
    /\ it.verification_method # "null"
    /\ it.last_verified_success # NoTime
    /\ Len(it.proof) >= 1

\* C39: a run that loads a verified record with a fail_streak below 5, has no
\* strong success and gets a 2xx answer from the homepage writes the record
\* verified with the same fail_streak.  The record it writes satisfies the
\* same conditions, so through any number of such runs the item is never
\* revoked and its fail_streak never changes.
C39_VerifiedKeptWhileHomepageAnswers ==
  \A e \in Entries :
    (/\ e.prev.had /\ e.prev.verification_status = "verified" /\ e.prev.fail_streak < 5
     /\ ~StrongOf(e.probe) /\ e.probe.home.res = "2xx")
      => /\ e.new.verification_status = "verified"
         /\ e.new.fail_streak = e.prev.fail_streak

\* a verified record one failed run short of revocation whose homepage
\* answers 2xx without a strong hint: still verified, the streak still 4
C39_Witness ==
  \E e \in Entries :
    /\ e.prev.had /\ e.prev.verification_status = "verified" /\ e.prev.fail_streak = 4
    /\ ~StrongOf(e.probe) /\ e.probe.home.res = "2xx"
    /\ e.new.verification_status = "verified" /\ e.new.fail_streak = 4

\* C40 as claimed: with more candidates than the cap and a candidate set that
\* does not change, a candidate that sorts after the cap is not among the
\* domains a run probes and has no item in the directory, after any number of
\* runs.
C40_BeyondCapNeverProbed ==
  last.ran =>
    \A i \in (MaxPerRun + 1)..Len(LastCandidates) :
      /\ \A j \in 1..Len(last.domains) : last.domains[j] # LastCandidates[i]
      /\ \A it \in Items : it.domain # LastCandidates[i]

====
